---- MODULE Spec2Model ----
(***************************************************************************)
(* Real-time price propagation pipeline of buildingMicroservices:          *)
(*   - the in-process event bus (product-api/internal/events),             *)
(*   - the currency server's subscription registry, fan-out loop and       *)
(*     reaper (currency/server/currency.go, currency/data/rates.go),       *)
(*   - the catalog-side rate client (product-api/internal/service),        *)
(*   - the product repository, the price projector and the push sessions   *)
(*     (product-api).                                                      *)
(* Each subsystem has its own specifications over the shared variable      *)
(* list; the variables of the other subsystems stay at their initial       *)
(* values.                                                                 *)
(***************************************************************************)
EXTENDS Integers, Sequences, FiniteSets, TLC

VARIABLES
    \* ---- event bus (EventBus[T]) ----
    subscribers,   \* bus.subscribers: the registered channels
    made,          \* channels created by Subscribe so far
    buf,           \* buf[h]: buffered events of channel h, oldest first
    closed,        \* closed[h]: close(ch) has been executed
    rlock,         \* tasks holding bus.mutex.RLock (publishers inside Publish)
    pubPc,         \* pubPc[p]: "idle" | "loop" (inside Publish's range loop)
    pubEv,         \* pubEv[p]: the event of the Publish call in progress
    pubTodo,       \* pubTodo[p]: subscribers the range loop has not visited yet
    unsubPc,       \* unsubPc[h]: "none" | "deleted" (unlocked, before close) | "done"
    nPub,          \* number of Publish calls started (events are numbered by call)
    panicked,      \* a send on a closed channel or a double close happened
    \* history of the bus, read only by the properties
    pubBy,         \* pubBy[e]: the task that published event e
    regAt,         \* regAt[e]: bus.subscribers when Publish(e) took the read lock
    fullAt,        \* fullAt[h]: events whose send found h holding QueueCap events
    deq,           \* deq[h]: events the consumer of h has received, in order
    eos,           \* eos[h]: the consumer of h has observed end-of-stream
    \* ---- currency server: rate store (ExchangeRates) ----
    rates,         \* e.rates: currency code -> rate against EUR, in 1/One units
    monPc,         \* MonitorRates goroutine: "select" | "notify" (blocked in ret <-) | "done"
    nTicks,        \* ticks of the monitor's ticker taken so far
    \* ---- currency server: Currency ----
    subs,          \* c.subscriptions: stream -> [rateRequests, lastActivity]
    conn,          \* conn[s]: "idle" | "open" | "halfclosed" | "broken"
    hpc,           \* SubscribeRates handler of s: "none" | "recv" | "returning" | "done"
    fanPc,         \* handleUpdates goroutine: "idle" (in select) | "streams" | "sending"
    fanTodo,       \* streams of subsCopy the outer range loop has not visited yet
    fanSnap,       \* subsCopy: per stream, the *clientSubscription it points to
    fanCur,        \* the stream the inner loop is sending to
    fanReqs,       \* the requests the inner range loop has not visited yet
    now,           \* wall clock, in minutes
    cleanupDue,    \* cleanupTicker.C holds a tick
    \* history of the server, read only by the properties
    written,       \* the rate table as the latest monitor tick wrote it
    fanWritten,    \* the table written by the tick the current fan-out pass serves
    reaped,        \* streams reaped and not registered again since
    sent,          \* the messages the step just taken put on the wire
    \* ---- rate client (currencyService of product-api) ----
    cPc,           \* "new" (before NewCurrencyService) | "running"
    cStream,       \* s.stream: 0 is nil, g > 0 is the g-th stream established
    cMade,         \* number of streams established so far
    cBroken,       \* streams whose transport has failed
    cSendClosed,   \* the stream on which Close called CloseSend (0: none)
    cSubs,         \* s.subscriptions: the currencies marked as subscribed
    cClosed,       \* s.closeCh is closed
    hbTimer,       \* the timer of handleHeartbeat: "armed" | "fired" | "spent"
    hbPc,          \* handleHeartbeat goroutine: "none" | "run" | "done"
    ruPc,          \* handleRateUpdates goroutine: "none" | "select" | "recv" | "done"
    ruOn,          \* the stream handleRateUpdates is blocked on in Recv (0: none)
    cRates,        \* s.rates: currency -> cached rate (0: no entry)
    \* history of the client, read only by the properties
    cSentOn,       \* currencies whose (EUR, c) request was sent on stream cStream
    cOut,          \* what the client step just taken put out: events, requests, RPCs
    \* ---- rate client: goroutines calling GetRate / SubscribeToRates ----
    kPc,           \* kPc[k]: "idle" | "unary" | "enter" | "lock" | "locked"
    kCur,          \* kCur[k]: the currency of the call in progress
    kRate,         \* kRate[k]: resp.Rate of the unary GetRate (0: direct subscribe)
    kSeen,         \* kSeen[k]: the value of exists read under subMutex
    subMutex,      \* the holder of s.subMutex, or "none"
    cReqCount,     \* history: cReqCount[c] requests (EUR, c) sent on a stream so far
    \* ---- rate client: Close ----
    onceCs,        \* s.once: "idle" | "running" (a caller is inside Do) | "done"
    clPc,          \* clPc[k]: "idle" | "body" | "waiting" | "returned"
    nCloseCh,      \* history: executions of close(s.closeCh)
    nCloseSend,    \* history: calls of s.stream.CloseSend()
    \* ---- product repository (memoryProductRepository) ----
    rArr,          \* the backing array of r.products, all cap(r.products) slots
    rLen,          \* len(r.products)
    nAdds,         \* calls of Add so far
    issued,        \* history: the ids Add has assigned
    \* ---- price projector (productService.handleRateChanges) ----
    pjPc,          \* "idle" (waiting for an event) | "iter" (in the product loop)
    pjEv,          \* the RateChanged event being handled
    pjShared,      \* the slice GetAll returned still shares r.products' array
    pjArr,         \* the array of that slice once r.products has moved to a new one
    pjLen,         \* the length of that slice
    pjIdx,         \* index of the next element the range loop visits
    pjFetched,     \* history: the products in the repository when GetAll returned
    pjPub,         \* history: the PriceUpdates published for the event being handled
    \* ---- currency server: the rate store's shutdown and its callers ----
    stClosed,      \* e.closeCh is closed
    stClosePc,     \* the caller of ExchangeRates.Close: "idle" | "waiting" | "returned"
    nRecv,         \* history: notifications the fan-out loop has received
    grPc,          \* the unary GetRate in progress: "idle" | "locked" (holds RLock)
    grReq,         \* its RateRequest
    grBr,          \* br, the base rate it has read
    grOut,         \* what the unary GetRate just finished returned
    hret,          \* hret[s]: the status SubscribeRates returns on stream s:
                   \* "none" (still in its loop) | "nil" | "Internal"
    heard,         \* history: heard[s], when the handler of the subscribed
                   \* stream s last received a message
    \* ---- product service (productService) ----
    svOut,         \* what the service call just made returned: products or error
    svPub,         \* the events the service call just made published, in order
    svCall,        \* history: the service call just made and its arguments
    \* ---- push sessions (websocket.Handler.HandleWebSocket) ----
    evKind,        \* evKind[e]: the type of the e-th event published on the bus
    wsPc,          \* wsPc[s]: "none" | "open" (upgraded) | "returning" | "done"
    wsConn,        \* wsConn[s]: "none" | "live" | "closed" (reads and writes fail)
    wsHandled,     \* wsHandled[s]: dequeued events the switch has dealt with
    wsOut,         \* wsOut[s]: the messages written to the connection, in order
    wsFailed,      \* history: wsFailed[s], conn.WriteMessage returned an error
    \* ---- from the stream to the price updates (product-api) ----
    wire,          \* history: the RateResponses Recv has returned, in order
    rcLog,         \* history: the RateChanged published, with their cause
    pjQueue,       \* the RateChanged buffered in the projector's subscription
    puLog,         \* history: the PriceUpdates published, with their cause
    \* ---- shutdown of the product service (productService.Close) ----
    psSub,         \* s.rateSubscriber: "ch" | "nil"
    psReg,         \* the projector's queue is registered in the bus
    psGo,          \* handleRateChanges: "spawned" (the range expression is not
                   \* evaluated yet) | "ranging" | "nilrange" (ranging over a
                   \* nil channel) | "done"
    psOnce,        \* s.once: "idle" | "running" | "done"
    psCl,          \* psCl[k]: Close called by k: "idle" | "unsub" (in the once
                   \* function, Unsubscribe called) | "wait" (in wg.Wait) |
                   \* "once" (waiting in once.Do) | "returned"
    nUnsub,        \* history: calls of Unsubscribe on the projector's queue
    nChClosed,     \* history: times the projector's queue was closed
    \* ---- the step just taken (server and client) ----
    last

busVars == <<subscribers, made, buf, closed, rlock, pubPc, pubEv, pubTodo,
             unsubPc, nPub, panicked, pubBy, regAt, fullAt, deq, eos>>

srvVars == <<rates, monPc, nTicks, subs, conn, hpc, fanPc, fanTodo, fanSnap,
             fanCur, fanReqs, now, cleanupDue, written, fanWritten, reaped,
             sent>>

cliVars == <<cPc, cStream, cMade, cBroken, cSendClosed, cSubs, cClosed,
             hbTimer, hbPc, ruPc, ruOn, cSentOn>>

\* the rate cache of the client and the outputs of its steps
cacheVars == <<cRates, cOut>>

callVars == <<kPc, kCur, kRate, kSeen, subMutex, cReqCount>>

closeVars == <<onceCs, clPc, nCloseCh, nCloseSend>>

catVars == <<rArr, rLen, nAdds, issued, pjPc, pjEv, pjShared, pjArr, pjLen,
             pjIdx, pjFetched, pjPub>>

storeVars == <<stClosed, stClosePc, nRecv, grPc, grReq, grBr, grOut>>

svcVars == <<svOut, svPub, svCall>>

pushVars == <<evKind, wsPc, wsConn, wsHandled, wsOut, wsFailed>>

hearVars == <<heard>>

retVars == <<hret>>

ordVars == <<wire, rcLog, pjQueue, puLog>>

shutVars == <<psSub, psReg, psGo, psOnce, psCl, nUnsub, nChClosed>>

nonBusVars == <<srvVars, storeVars, hearVars, retVars, cliVars, cacheVars, callVars,
                closeVars, catVars, svcVars, ordVars, shutVars, pushVars, last>>

\* what no part of the currency server touches
nonServerVars == <<busVars, cliVars, cacheVars, callVars, closeVars, catVars,
                   svcVars, ordVars, shutVars, pushVars>>

\* what the handlers and the fan-out loop leave alone besides
nonHearVars == <<nonServerVars, storeVars, retVars>>

\* what a handler that returns leaves alone besides
nonRetVars == <<nonServerVars, storeVars>>

nonSrvVars == <<nonServerVars, storeVars, hearVars, retVars>>

\* what the rate client and the bus subscription of the projector leave alone
nonCliOrdVars == <<busVars, srvVars, storeVars, hearVars, retVars, catVars,
                   svcVars, shutVars, pushVars>>

nonCliVars == <<nonCliOrdVars, ordVars>>

\* what the projector, its bus subscription and Close leave alone
nonShutVars == <<busVars, srvVars, storeVars, hearVars, retVars, cliVars,
                 cacheVars, callVars, closeVars, svcVars, pushVars>>

\* what the projector and its bus subscription leave alone
nonCatOrdVars == <<nonShutVars, shutVars>>

\* what neither the repository nor the product service touches
nonStoreVars == <<busVars, srvVars, storeVars, hearVars, retVars, cliVars, cacheVars,
                  callVars, closeVars, ordVars, shutVars, pushVars>>

nonCatVars == <<nonStoreVars, svcVars>>

nonPushVars == <<srvVars, storeVars, hearVars, retVars, cliVars, cacheVars, callVars,
                 closeVars, catVars, svcVars, ordVars, shutVars, last>>

vars == <<busVars, srvVars, storeVars, hearVars, retVars, cliVars, cacheVars, callVars,
          closeVars, catVars, svcVars, ordVars, shutVars, pushVars, last>>

----------------------------------------------------------------------------
(* Helpers *)

Range(s) == {s[i] : i \in DOMAIN s}

NoDup(s) == \A i, j \in DOMAIN s : i # j => s[i] # s[j]

\* s restricted to the elements satisfying membership in S, order kept
RECURSIVE Filter(_, _)
Filter(s, S) ==
    IF s = <<>> THEN <<>>
    ELSE IF Head(s) \in S THEN <<Head(s)>> \o Filter(Tail(s), S)
         ELSE Filter(Tail(s), S)

Increasing(s) == \A i, j \in DOMAIN s : i < j => s[i] < s[j]

----------------------------------------------------------------------------
(* Event bus                                                               *)

\* Capacity of a subscriber channel. The source allocates 100 slots
\* (make(Subscriber[T], 100)); the model scales it down so that a full queue
\* is reached within MaxEvents publishes.
QueueCap == 2

\* Number of Publish calls explored.
MaxEvents == 3

Handles == {"h1", "h2"}       \* channels Subscribe can hand out
Publishers == {"p1", "p2"}    \* tasks that call Publish

BusInit ==
    /\ subscribers = {}
    /\ made = {}
    /\ buf = [h \in Handles |-> <<>>]
    /\ closed = [h \in Handles |-> FALSE]
    /\ rlock = {}
    /\ pubPc = [p \in Publishers |-> "idle"]
    /\ pubEv = [p \in Publishers |-> 0]
    /\ pubTodo = [p \in Publishers |-> {}]
    /\ unsubPc = [h \in Handles |-> "none"]
    /\ nPub = 0
    /\ panicked = FALSE
    /\ pubBy = <<>>
    /\ regAt = <<>>
    /\ fullAt = [h \in Handles |-> {}]
    /\ deq = [h \in Handles |-> <<>>]
    /\ eos = [h \in Handles |-> FALSE]

\* bus.mutex.Lock() can be taken: no Publish holds the read lock. (Critical
\* sections under the write lock are single steps, so no writer is ever seen
\* holding it.)
CanLockIgnoringReaders == TRUE

CanLock == rlock = {}

\* select { case subscriber <- event: default: } on a channel holding q.
\* A send on a closed channel panics; a full buffer takes the default branch.
ChanSendAlways(q, isClosed, e) ==
    IF isClosed THEN [panic |-> TRUE, q |-> q]
    ELSE [panic |-> FALSE, q |-> Append(q, e)]

ChanSendFront(q, isClosed, e) ==
    IF isClosed THEN [panic |-> TRUE, q |-> q]
    ELSE IF Len(q) < QueueCap THEN [panic |-> FALSE, q |-> <<e>> \o q]
    ELSE [panic |-> FALSE, q |-> q]

ChanSend(q, isClosed, e) ==
    IF isClosed THEN [panic |-> TRUE, q |-> q]
    ELSE IF Len(q) < QueueCap THEN [panic |-> FALSE, q |-> Append(q, e)]
    ELSE [panic |-> FALSE, q |-> q]

\* Subscribe: make the channel, register it under the write lock.
Subscribe(h) ==
    /\ ~panicked
    /\ h \notin made
    /\ CanLock
    /\ made' = made \cup {h}
    /\ subscribers' = subscribers \cup {h}
    /\ UNCHANGED nonBusVars
    /\ UNCHANGED <<buf, closed, rlock, pubPc, pubEv, pubTodo, unsubPc, nPub,
                   panicked, pubBy, regAt, fullAt, deq, eos>>

\* Unsubscribe, first half, without the delete.
UnsubscribeDeleteKeeps(h) ==
    /\ ~panicked
    /\ h \in made
    /\ unsubPc[h] = "none"
    /\ CanLock
    /\ unsubPc' = [unsubPc EXCEPT ![h] = "deleted"]
    /\ UNCHANGED nonBusVars
    /\ UNCHANGED <<subscribers, made, buf, closed, rlock, pubPc, pubEv, pubTodo,
                   nPub, panicked, pubBy, regAt, fullAt, deq, eos>>

\* Unsubscribe, first half: Lock; delete(bus.subscribers, ch); Unlock.
UnsubscribeDelete(h) ==
    /\ ~panicked
    /\ h \in made
    /\ unsubPc[h] = "none"
    /\ CanLock
    /\ subscribers' = subscribers \ {h}
    /\ unsubPc' = [unsubPc EXCEPT ![h] = "deleted"]
    /\ UNCHANGED nonBusVars
    /\ UNCHANGED <<made, buf, closed, rlock, pubPc, pubEv, pubTodo, nPub,
                   panicked, pubBy, regAt, fullAt, deq, eos>>

\* Unsubscribe, second half: close(ch), outside the lock; then it returns.
UnsubscribeClose(h) ==
    /\ ~panicked
    /\ unsubPc[h] = "deleted"
    /\ closed' = [closed EXCEPT ![h] = TRUE]
    /\ panicked' = closed[h]
    /\ unsubPc' = [unsubPc EXCEPT ![h] = "done"]
    /\ UNCHANGED nonBusVars
    /\ UNCHANGED <<subscribers, made, buf, rlock, pubPc, pubEv, pubTodo, nPub,
                   pubBy, regAt, fullAt, deq, eos>>

\* Publish, entry: RLock (deferred RUnlock), the range loop starts over the
\* map as it is now.
PublishBegin(p) ==
    /\ ~panicked
    /\ pubPc[p] = "idle"
    /\ nPub < MaxEvents
    /\ nPub' = nPub + 1
    /\ rlock' = rlock \cup {p}
    /\ pubPc' = [pubPc EXCEPT ![p] = "loop"]
    /\ pubEv' = [pubEv EXCEPT ![p] = nPub + 1]
    /\ pubTodo' = [pubTodo EXCEPT ![p] = subscribers]
    /\ pubBy' = Append(pubBy, p)
    /\ regAt' = Append(regAt, subscribers)
    /\ UNCHANGED nonBusVars
    /\ UNCHANGED <<subscribers, made, buf, closed, unsubPc, panicked, fullAt,
                   deq, eos>>

\* Publish, one iteration of the range loop: the non-blocking send to one
\* subscriber (map iteration order is unspecified: any unvisited one).
PublishSend(p, h) ==
    /\ ~panicked
    /\ pubPc[p] = "loop"
    /\ h \in pubTodo[p]
    /\ LET r == ChanSend(buf[h], closed[h], pubEv[p]) IN
        /\ buf' = [buf EXCEPT ![h] = r.q]
        /\ panicked' = r.panic
    /\ fullAt' = [fullAt EXCEPT ![h] =
                    IF Len(buf[h]) >= QueueCap THEN @ \cup {pubEv[p]} ELSE @]
    /\ pubTodo' = [pubTodo EXCEPT ![p] = @ \ {h}]
    /\ UNCHANGED nonBusVars
    /\ UNCHANGED <<subscribers, made, closed, rlock, pubPc, pubEv, unsubPc,
                   nPub, pubBy, regAt, deq, eos>>

\* Publish, exit: the loop is over, the deferred RUnlock runs.
PublishEnd(p) ==
    /\ ~panicked
    /\ pubPc[p] = "loop"
    /\ pubTodo[p] = {}
    /\ rlock' = rlock \ {p}
    /\ pubPc' = [pubPc EXCEPT ![p] = "idle"]
    /\ UNCHANGED nonBusVars
    /\ UNCHANGED <<subscribers, made, buf, closed, pubEv, pubTodo, unsubPc,
                   nPub, panicked, pubBy, regAt, fullAt, deq, eos>>

\* The consumer of h receives: a buffered event if there is one (also after
\* close), end-of-stream when the channel is closed and empty.
Receive(h) ==
    /\ ~panicked
    /\ h \in made
    /\ ~eos[h]
    /\ \/ /\ buf[h] # <<>>
          /\ deq' = [deq EXCEPT ![h] = Append(@, Head(buf[h]))]
          /\ buf' = [buf EXCEPT ![h] = Tail(@)]
          /\ UNCHANGED eos
       \/ /\ buf[h] = <<>>
          /\ closed[h]
          /\ eos' = [eos EXCEPT ![h] = TRUE]
          /\ UNCHANGED <<deq, buf>>
    /\ UNCHANGED <<subscribers, made, closed, rlock, pubPc, pubEv, pubTodo,
                   unsubPc, nPub, panicked, pubBy, regAt, fullAt>>
    /\ UNCHANGED nonBusVars

BusNext ==
    \/ \E h \in Handles : Subscribe(h)
    \/ \E h \in Handles : UnsubscribeDelete(h)
    \/ \E h \in Handles : UnsubscribeClose(h)
    \/ \E p \in Publishers : PublishBegin(p)
    \/ \E p \in Publishers, h \in Handles : PublishSend(p, h)
    \/ \E p \in Publishers : PublishEnd(p)
    \/ \E h \in Handles : Receive(h)

----------------------------------------------------------------------------
(* Currency server: rate store                                             *)

\* The fixed-point representation of the rate 1.0 (EUR is always 1.0).
One == 100

\* Reap threshold, in minutes (5*time.Minute).
StaleAfter == 5

\* Ticks of the monitor explored.
MaxTicks == 2

\* Minutes of wall-clock time explored.
MaxTime == 6

Streams == {"s1", "s2"}       \* server-side stream handles

\* The daily feed as loaded by getRates; EUR is forced to 1.0. GBP is a code
\* of the Currencies enum the feed does not carry.
FeedRates == [EUR |-> One, USD |-> 110]

\* Percentages the monitor multiplies a rate by: 1 -/+ rand.Float64()/10.
Factors == {91, 109}

Rq(b, d) == [base |-> b, dest |-> d]

\* The RateRequests a client puts on a stream.
Inputs == {Rq("UNKNOWN", "UNKNOWN"), Rq("EUR", "USD"), Rq("EUR", "GBP"),
           Rq("EUR", "EUR"), Rq("UNKNOWN", "USD"), Rq("EUR", "UNKNOWN")}

\* ExchangeRates.GetRate: dr / br, or an error when a code is absent.
ExchangeRatesGetRate(table, base, dest) ==
    IF base \notin DOMAIN table THEN [ok |-> FALSE, rate |-> 0]
    ELSE IF dest \notin DOMAIN table THEN [ok |-> FALSE, rate |-> 0]
    ELSE [ok |-> TRUE, rate |-> (table[dest] * One) \div table[base]]

\* v * change in the table's fixed-point unit: the product rounded to the
\* nearest representable value, as the floating-point multiplication does.
Times(v, f) == (v * f + 50) \div 100

PerturbedAll(table, fs) ==
    [k \in DOMAIN table |->
        Times(table[k], IF k \in DOMAIN fs THEN fs[k] ELSE 91)]

\* One pass of the monitor over the table: every rate but EUR's is
\* multiplied by a factor of its own.
Perturbed(table, fs) ==
    [k \in DOMAIN table |->
        IF k = "EUR" THEN table[k] ELSE Times(table[k], fs[k])]

\* getRates: the entries of the daily feed, then EUR forced to 1.0.
getRates(feed) ==
    [k \in DOMAIN feed \cup {"EUR"} |-> IF k = "EUR" THEN One ELSE feed[k]]

\* Daily feeds: the usual one, one with a rate of one unit, the smallest
\* positive value of the representation, and one that lists EUR itself.
Feeds == {[USD |-> 110], [USD |-> 1], [USD |-> 110, EUR |-> 250]}

----------------------------------------------------------------------------
(* Currency server: subscription registry                                  *)

isHeartbeat(rr) == rr.base = "UNKNOWN" /\ rr.dest = "UNKNOWN"

validateRateRequestBaseOnly(rr) ==
    IF rr.base = "UNKNOWN" THEN "Base currency is not specified"
    ELSE IF rr.base = rr.dest
         THEN "Base currency cannot be the same as destination currency"
    ELSE ""

validateRateRequestNoSelfCheck(rr) ==
    IF rr.base = "UNKNOWN" THEN "Base currency is not specified"
    ELSE IF rr.dest = "UNKNOWN" THEN "Destination currency is not specified"
    ELSE ""

validateRateRequest(rr) ==
    IF rr.base = "UNKNOWN" THEN "Base currency is not specified"
    ELSE IF rr.dest = "UNKNOWN" THEN "Destination currency is not specified"
    ELSE IF rr.base = rr.dest
         THEN "Base currency cannot be the same as destination currency"
    ELSE ""

subscriptionExistsNever(reg, s, rr) == FALSE

subscriptionExists(reg, s, rr) ==
    /\ s \in DOMAIN reg
    /\ \E i \in DOMAIN reg[s].rateRequests :
          /\ reg[s].rateRequests[i].base = rr.base
          /\ reg[s].rateRequests[i].dest = rr.dest

addSubscription(reg, s, rr, t) ==
    LET old == IF s \in DOMAIN reg THEN reg[s].rateRequests ELSE <<>> IN
    [x \in DOMAIN reg \cup {s} |->
        IF x = s THEN [rateRequests |-> Append(old, rr), lastActivity |-> t]
        ELSE reg[x]]

removeSubscriptionKeeps(reg, s) == reg

removeSubscription(reg, s) == [x \in DOMAIN reg \ {s} |-> reg[x]]

updateClientActivityUpsert(reg, s, t) ==
    [x \in DOMAIN reg \cup {s} |->
        IF x = s
        THEN [rateRequests |-> IF s \in DOMAIN reg THEN reg[s].rateRequests
                               ELSE <<>>,
              lastActivity |-> t]
        ELSE reg[x]]

updateClientActivity(reg, s, t) ==
    IF s \in DOMAIN reg THEN [reg EXCEPT ![s].lastActivity = t] ELSE reg

IsStaleAtThreshold(sub, t) == t - sub.lastActivity >= StaleAfter

\* time.Since(sub.lastActivity) > 5*time.Minute
IsStale(sub, t) == t - sub.lastActivity > StaleAfter

removeStaleSubscriptions(reg, t) ==
    [x \in {y \in DOMAIN reg : ~IsStale(reg[y], t)} |-> reg[x]]

NoOp == [op |-> "other", s |-> "none"]

\* getSubscriptionsCopy copies the map, not the records: every entry of the
\* copy points to the record the registry holds.
NoSnap == [in |-> FALSE, live |-> FALSE, reqs |-> <<>>]

NoSnaps == [s \in Streams |-> NoSnap]

getSubscriptionsCopy(reg) ==
    [s \in Streams |->
        IF s \in DOMAIN reg THEN [in |-> TRUE, live |-> TRUE, reqs |-> <<>>]
        ELSE NoSnap]

\* A record deleted from the registry stays reachable from subsCopy, and
\* nobody writes to it any more: the copy keeps the requests it held.
Detach(snap, reg, gone) ==
    [s \in Streams |->
        IF s \in gone /\ snap[s].in /\ snap[s].live /\ s \in DOMAIN reg
        THEN [in |-> TRUE, live |-> FALSE, reqs |-> reg[s].rateRequests]
        ELSE snap[s]]

\* sub.rateRequests as the fan-out loop reads it through subsCopy.
SnapRequests(snap, reg, s) ==
    IF snap[s].live /\ s \in DOMAIN reg THEN reg[s].rateRequests
    ELSE snap[s].reqs

RateResponse(s, rr, r) ==
    [to |-> s, kind |-> "rate", base |-> rr.base, dest |-> rr.dest,
     rate |-> r, code |-> "OK"]

ErrorStatus(s, rr) ==
    [to |-> s, kind |-> "error", base |-> rr.base, dest |-> rr.dest,
     rate |-> 0, code |-> "InvalidArgument"]

\* clientStream.Send succeeds while the transport is up and the handler has
\* not returned.
SendOk(s) == conn[s] \in {"open", "halfclosed"} /\ hpc[s] # "done"

\* The server after NewRates has loaded the table and NewCurrency has
\* started handleUpdates.
SrvInitWith(table) ==
    /\ rates = table
    /\ monPc = "select"
    /\ nTicks = 0
    /\ subs = [x \in {} |-> x]
    /\ conn = [s \in Streams |-> "idle"]
    /\ hpc = [s \in Streams |-> "none"]
    /\ fanPc = "idle"
    /\ fanTodo = {}
    /\ fanSnap = NoSnaps
    /\ fanCur = "none"
    /\ fanReqs = <<>>
    /\ now = 0
    /\ cleanupDue = FALSE
    /\ written = table
    /\ fanWritten = table
    /\ reaped = {}
    /\ sent = <<>>
    /\ heard = [x \in {} |-> x]
    /\ hret = [s \in Streams |-> "none"]

SrvInit == SrvInitWith(FeedRates)

----------------------------------------------------------------------------
(* Currency server: actions                                                *)

\* The stream in from has just been received from; a stream that holds no
\* subscription any more is forgotten.
Hears(from) ==
    heard' = [s \in DOMAIN subs' |->
                 IF s \in from \/ s \notin DOMAIN heard THEN now
                 ELSE heard[s]]

MonitorInSelectOrNotify == monPc \in {"select", "notify"}

\* The monitor is in its select (and not blocked in ret <- struct{}{}).
MonitorInSelect == monPc = "select"

\* e.mutex.Lock() can be taken: no GetRate holds the read lock.
StoreCanLockIgnoringReaders == TRUE

StoreCanLock == grPc = "idle"

\* MonitorRates, case <-ticker.C: perturb the table under the write lock,
\* then block in ret <- struct{}{}.
MonitorTick(F) ==
    /\ MonitorInSelect
    /\ StoreCanLock
    /\ nTicks < MaxTicks
    /\ \E fs \in [DOMAIN rates \ {"EUR"} -> F] :
          /\ rates' = Perturbed(rates, fs)
          /\ written' = Perturbed(rates, fs)
    /\ monPc' = "notify"
    /\ nTicks' = nTicks + 1
    /\ sent' = <<>>
    /\ last' = NoOp
    /\ UNCHANGED <<subs, conn, hpc, fanPc, fanTodo, fanSnap, fanCur, fanReqs,
                   now, cleanupDue, fanWritten, reaped>>
    /\ UNCHANGED nonSrvVars

\* handleUpdates, case <-rateUpdates: the notification is received (the
\* monitor goes back to its select) and the registry is copied.
FanOutReceive ==
    /\ fanPc = "idle"
    /\ monPc = "notify"
    /\ monPc' = "select"
    /\ fanTodo' = DOMAIN subs
    /\ IF DOMAIN subs = {}
       THEN fanPc' = "idle" /\ fanSnap' = NoSnaps
       ELSE fanPc' = "streams" /\ fanSnap' = getSubscriptionsCopy(subs)
    /\ fanWritten' = written
    /\ sent' = <<>>
    /\ last' = NoOp
    /\ UNCHANGED <<rates, nTicks, subs, conn, hpc, fanCur, fanReqs, now,
                   cleanupDue, written, reaped>>
    /\ nRecv' = nRecv + 1
    /\ UNCHANGED <<stClosed, stClosePc, grPc, grReq, grBr, grOut>>
    /\ UNCHANGED <<nonServerVars, hearVars, retVars>>

\* handleUpdates, outer loop: the next stream of subsCopy (in map order, that
\* is any order); the inner range evaluates sub.rateRequests once, here.
FanOutNextStream(s) ==
    /\ fanPc = "streams"
    /\ s \in fanTodo
    /\ fanTodo' = fanTodo \ {s}
    /\ fanCur' = s
    /\ fanReqs' = SnapRequests(fanSnap, subs, s)
    /\ fanPc' = "sending"
    /\ sent' = <<>>
    /\ last' = NoOp
    /\ UNCHANGED <<rates, monPc, nTicks, subs, conn, hpc, fanSnap, now,
                   cleanupDue, written, fanWritten, reaped>>
    /\ UNCHANGED nonSrvVars

\* The inner loop over the current stream is over: the outer loop goes on
\* with the next stream, or the pass is over and handleUpdates is back in
\* its select.
StreamFinished(snap) ==
    /\ fanReqs' = <<>>
    /\ fanCur' = "none"
    /\ IF fanTodo = {}
       THEN fanPc' = "idle" /\ fanSnap' = NoSnaps
       ELSE fanPc' = "streams" /\ fanSnap' = snap

StreamContinues ==
    /\ fanReqs' = Tail(fanReqs)
    /\ UNCHANGED <<fanPc, fanSnap, fanCur>>

\* handleUpdates, inner loop: one request of the current stream. The rate is
\* looked up in the table as it is now.
\* A failed lookup is logged and the request skipped.
FanOutSkip ==
    /\ fanPc = "sending"
    /\ LET rr == Head(fanReqs) IN
          ~ExchangeRatesGetRate(rates, rr.base, rr.dest).ok
    /\ sent' = <<>>
    /\ last' = [op |-> "FanOutSkip", s |-> fanCur]
    /\ IF Tail(fanReqs) = <<>> THEN StreamFinished(fanSnap)
       ELSE StreamContinues
    /\ UNCHANGED <<rates, monPc, nTicks, subs, conn, hpc, fanTodo, now,
                   cleanupDue, written, fanWritten, reaped>>
    /\ UNCHANGED nonSrvVars

\* The RateResponse is sent.
FanOutSend ==
    /\ fanPc = "sending"
    /\ SendOk(fanCur)
    /\ LET rr == Head(fanReqs)
           r == ExchangeRatesGetRate(rates, rr.base, rr.dest)
       IN
        /\ r.ok
        /\ sent' = <<RateResponse(fanCur, rr, r.rate)>>
    /\ last' = [op |-> "FanOutSend", s |-> fanCur]
    /\ IF Tail(fanReqs) = <<>> THEN StreamFinished(fanSnap)
       ELSE StreamContinues
    /\ UNCHANGED <<rates, monPc, nTicks, subs, conn, hpc, fanTodo, now,
                   cleanupDue, written, fanWritten, reaped>>
    /\ UNCHANGED nonSrvVars

\* The Send fails: removeSubscription, and break out of the inner loop.
FanOutSendFailed ==
    /\ fanPc = "sending"
    /\ ~SendOk(fanCur)
    /\ LET rr == Head(fanReqs) IN
          ExchangeRatesGetRate(rates, rr.base, rr.dest).ok
    /\ subs' = removeSubscription(subs, fanCur)
    /\ sent' = <<>>
    /\ last' = [op |-> "FanOutSendFailed", s |-> fanCur]
    /\ StreamFinished(Detach(fanSnap, subs, {fanCur}))
    /\ UNCHANGED <<rates, monPc, nTicks, conn, hpc, fanTodo, now,
                   cleanupDue, written, fanWritten, reaped>>
    /\ Hears({})
    /\ UNCHANGED nonHearVars

\* The reaper is a case of handleUpdates' select: it runs only between
\* fan-out passes, when the cleanup ticker has fired.
ReaperReadyAnyTime == cleanupDue

ReaperReady == fanPc = "idle" /\ cleanupDue

\* handleUpdates, case <-cleanupTicker.C: removeStaleSubscriptions.
Reap ==
    /\ ReaperReady
    /\ cleanupDue' = FALSE
    /\ subs' = removeStaleSubscriptions(subs, now)
    /\ fanSnap' = Detach(fanSnap, subs,
                         {s \in DOMAIN subs : IsStale(subs[s], now)})
    /\ reaped' = reaped \cup {s \in DOMAIN subs : IsStale(subs[s], now)}
    /\ sent' = <<>>
    /\ last' = [op |-> "Reap", s |-> "none"]
    /\ UNCHANGED <<rates, monPc, nTicks, conn, hpc, fanPc, fanTodo, fanCur,
                   fanReqs, now, written, fanWritten>>
    /\ Hears({})
    /\ UNCHANGED nonHearVars

\* A minute passes; the cleanup ticker (period one minute, buffer 1) fires.
ClockTick ==
    /\ now < MaxTime
    /\ now' = now + 1
    /\ cleanupDue' = TRUE
    /\ sent' = <<>>
    /\ last' = NoOp
    /\ UNCHANGED <<rates, monPc, nTicks, subs, conn, hpc, fanPc, fanTodo,
                   fanSnap, fanCur, fanReqs, written, fanWritten, reaped>>
    /\ UNCHANGED nonSrvVars

\* A client opens a SubscribeRates stream: the handler starts and blocks in
\* clientStream.Recv().
OpenStream(s) ==
    /\ conn[s] = "idle"
    /\ conn' = [conn EXCEPT ![s] = "open"]
    /\ hpc' = [hpc EXCEPT ![s] = "recv"]
    /\ sent' = <<>>
    /\ last' = NoOp
    /\ UNCHANGED <<rates, monPc, nTicks, subs, fanPc, fanTodo, fanSnap,
                   fanCur, fanReqs, now, cleanupDue, written, fanWritten,
                   reaped>>
    /\ UNCHANGED nonSrvVars

\* The client closes its sending side (CloseSend): Recv will return io.EOF.
ClientCloseSend(s) ==
    /\ conn[s] = "open"
    /\ hpc[s] = "recv"
    /\ conn' = [conn EXCEPT ![s] = "halfclosed"]
    /\ sent' = <<>>
    /\ last' = NoOp
    /\ UNCHANGED <<rates, monPc, nTicks, subs, hpc, fanPc, fanTodo, fanSnap,
                   fanCur, fanReqs, now, cleanupDue, written, fanWritten,
                   reaped>>
    /\ UNCHANGED nonSrvVars

\* The transport of the stream fails: Recv will return an error, Send fails.
TransportBreak(s) ==
    /\ conn[s] \in {"open", "halfclosed"}
    /\ hpc[s] = "recv"
    /\ conn' = [conn EXCEPT ![s] = "broken"]
    /\ sent' = <<>>
    /\ last' = NoOp
    /\ UNCHANGED <<rates, monPc, nTicks, subs, hpc, fanPc, fanTodo, fanSnap,
                   fanCur, fanReqs, now, cleanupDue, written, fanWritten,
                   reaped>>
    /\ UNCHANGED nonSrvVars

\* SubscribeRates, Recv returned a heartbeat: updateClientActivity.
HandleHeartbeat(s, rr) ==
    /\ hpc[s] = "recv"
    /\ conn[s] = "open"
    /\ isHeartbeat(rr)
    /\ subs' = updateClientActivity(subs, s, now)
    /\ sent' = <<>>
    /\ last' = [op |-> "HandleHeartbeat", s |-> s]
    /\ UNCHANGED <<rates, monPc, nTicks, conn, hpc, fanPc, fanTodo, fanSnap,
                   fanCur, fanReqs, now, cleanupDue, written, fanWritten,
                   reaped>>
    /\ Hears({s})
    /\ UNCHANGED nonHearVars

\* SubscribeRates, the two error replies (a request that fails validation, a
\* request already registered): the ErrorStatus is sent on the stream and the
\* loop continues; if the Send fails the subscription is removed and the
\* handler returns Internal.
ReplyError(s, rr, op) ==
    \/ /\ sent' = <<ErrorStatus(s, rr)>>
       /\ last' = [op |-> op, s |-> s]
       /\ UNCHANGED <<subs, conn, hpc, fanSnap>>
    \/ /\ conn' = [conn EXCEPT ![s] = "broken"]
       /\ subs' = removeSubscription(subs, s)
       /\ fanSnap' = Detach(fanSnap, subs, {s})
       /\ hpc' = [hpc EXCEPT ![s] = "done"]
       /\ sent' = <<>>
       /\ last' = [op |-> "HandleSendFailed", s |-> s]

HandleInvalid(s, rr) ==
    /\ hpc[s] = "recv"
    /\ conn[s] = "open"
    /\ ~isHeartbeat(rr)
    /\ validateRateRequest(rr) # ""
    /\ ReplyError(s, rr, "HandleInvalid")
    /\ UNCHANGED <<rates, monPc, nTicks, fanPc, fanTodo, fanCur, fanReqs,
                   now, cleanupDue, written, fanWritten, reaped>>
    /\ Hears({s})
    /\ hret' = IF hpc'[s] = "done" THEN [hret EXCEPT ![s] = "Internal"]
               ELSE hret
    /\ UNCHANGED nonRetVars

HandleDuplicate(s, rr) ==
    /\ hpc[s] = "recv"
    /\ conn[s] = "open"
    /\ ~isHeartbeat(rr)
    /\ validateRateRequest(rr) = ""
    /\ subscriptionExists(subs, s, rr)
    /\ ReplyError(s, rr, "HandleDuplicate")
    /\ UNCHANGED <<rates, monPc, nTicks, fanPc, fanTodo, fanCur, fanReqs,
                   now, cleanupDue, written, fanWritten, reaped>>
    /\ Hears({s})
    /\ hret' = IF hpc'[s] = "done" THEN [hret EXCEPT ![s] = "Internal"]
               ELSE hret
    /\ UNCHANGED nonRetVars

\* SubscribeRates, a valid request not registered yet: addSubscription.
HandleSubscribe(s, rr) ==
    /\ hpc[s] = "recv"
    /\ conn[s] = "open"
    /\ ~isHeartbeat(rr)
    /\ validateRateRequest(rr) = ""
    /\ ~subscriptionExists(subs, s, rr)
    /\ subs' = addSubscription(subs, s, rr, now)
    /\ reaped' = reaped \ {s}
    /\ sent' = <<>>
    /\ last' = [op |-> "HandleSubscribe", s |-> s]
    /\ UNCHANGED <<rates, monPc, nTicks, conn, hpc, fanPc, fanTodo, fanSnap,
                   fanCur, fanReqs, now, cleanupDue, written, fanWritten>>
    /\ Hears({s})
    /\ UNCHANGED nonHearVars

RecvEndStatusNil(c) == "nil"

\* What SubscribeRates returns when Recv ends: nil after io.EOF (the client
\* closed its sending side), Internal after any other error.
RecvEndStatus(c) == IF c = "halfclosed" THEN "nil" ELSE "Internal"

\* SubscribeRates, Recv returned io.EOF or an error: removeSubscription; the
\* handler has not returned yet.
HandleRecvEnd(s) ==
    /\ hpc[s] = "recv"
    /\ conn[s] \in {"halfclosed", "broken"}
    /\ subs' = removeSubscription(subs, s)
    /\ fanSnap' = Detach(fanSnap, subs, {s})
    /\ hpc' = [hpc EXCEPT ![s] = "returning"]
    /\ sent' = <<>>
    /\ last' = [op |-> IF conn[s] = "halfclosed" THEN "HandleEOF"
                       ELSE "HandleRecvError",
                s |-> s]
    /\ UNCHANGED <<rates, monPc, nTicks, conn, fanPc, fanTodo, fanCur,
                   fanReqs, now, cleanupDue, written, fanWritten, reaped>>
    /\ Hears({})
    /\ hret' = [hret EXCEPT ![s] = RecvEndStatus(conn[s])]
    /\ UNCHANGED nonRetVars

\* SubscribeRates returns (nil after io.EOF, Internal after an error): the
\* stream is finished.
HandlerReturn(s) ==
    /\ hpc[s] = "returning"
    /\ hpc' = [hpc EXCEPT ![s] = "done"]
    /\ sent' = <<>>
    /\ last' = NoOp
    /\ UNCHANGED <<rates, monPc, nTicks, subs, conn, fanPc, fanTodo, fanSnap,
                   fanCur, fanReqs, now, cleanupDue, written, fanWritten,
                   reaped>>
    /\ UNCHANGED nonSrvVars

\* The requests a client subscribes with, and those that keep a
\* subscription alive.
SubscribeInputs == {Rq("EUR", "USD"), Rq("EUR", "GBP")}
KeepAliveInputs == {Rq("UNKNOWN", "UNKNOWN"), Rq("EUR", "USD")}

\* Fan-out: the monitor, the fan-out loop and the stream handlers, with
\* subscriptions coming and going; the clock stands still.
FanOutNext ==
    \/ MonitorTick(Factors)
    \/ FanOutReceive
    \/ \E s \in Streams : FanOutNextStream(s)
    \/ FanOutSkip
    \/ FanOutSend
    \/ FanOutSendFailed
    \/ \E s \in Streams : OpenStream(s)
    \/ \E s \in Streams : ClientCloseSend(s)
    \/ \E s \in Streams : TransportBreak(s)
    \/ \E s \in Streams, rr \in SubscribeInputs : HandleSubscribe(s, rr)
    \/ \E s \in Streams : HandleRecvEnd(s)
    \/ \E s \in Streams : HandlerReturn(s)

\* Handlers: every kind of request on every stream, streams ending and
\* failing; the clock stands still and the monitor does not tick.
HandlerNext ==
    \/ \E s \in Streams : OpenStream(s)
    \/ \E s \in Streams : ClientCloseSend(s)
    \/ \E s \in Streams : TransportBreak(s)
    \/ \E s \in Streams, rr \in Inputs : HandleHeartbeat(s, rr)
    \/ \E s \in Streams, rr \in Inputs : HandleInvalid(s, rr)
    \/ \E s \in Streams, rr \in Inputs : HandleDuplicate(s, rr)
    \/ \E s \in Streams, rr \in Inputs : HandleSubscribe(s, rr)
    \/ \E s \in Streams : HandleRecvEnd(s)
    \/ \E s \in Streams : HandlerReturn(s)

\* Liveness of subscriptions: the clock, the reaper, heartbeats and
\* subscriptions, streams ending and failing, with the fan-out loop running
\* (the monitor ticks without changing a rate, and every subscribed code is
\* in the table).
ReaperNext ==
    \/ MonitorTick({100})
    \/ FanOutReceive
    \/ \E s \in Streams : FanOutNextStream(s)
    \/ FanOutSend
    \/ FanOutSendFailed
    \/ Reap
    \/ ClockTick
    \/ \E s \in Streams : OpenStream(s)
    \/ \E s \in Streams : ClientCloseSend(s)
    \/ \E s \in Streams : TransportBreak(s)
    \/ \E s \in Streams, rr \in KeepAliveInputs : HandleHeartbeat(s, rr)
    \/ \E s \in Streams, rr \in KeepAliveInputs : HandleSubscribe(s, rr)
    \/ \E s \in Streams : HandleRecvEnd(s)
    \/ \E s \in Streams : HandlerReturn(s)

\* The messages a stream sends while the clock runs: a heartbeat, a pair
\* (a duplicate from the second time on) and a request that fails
\* validation.
ActivityInputs == KeepAliveInputs \cup {Rq("EUR", "EUR")}

\* Activity: the clock, the reaper and every kind of message on every
\* stream, streams ending and failing; the monitor does not tick.
ActivityNext ==
    \/ Reap
    \/ ClockTick
    \/ \E s \in Streams : OpenStream(s)
    \/ \E s \in Streams : ClientCloseSend(s)
    \/ \E s \in Streams : TransportBreak(s)
    \/ \E s \in Streams, rr \in ActivityInputs : HandleHeartbeat(s, rr)
    \/ \E s \in Streams, rr \in ActivityInputs : HandleInvalid(s, rr)
    \/ \E s \in Streams, rr \in ActivityInputs : HandleDuplicate(s, rr)
    \/ \E s \in Streams, rr \in ActivityInputs : HandleSubscribe(s, rr)
    \/ \E s \in Streams : HandleRecvEnd(s)
    \/ \E s \in Streams : HandlerReturn(s)

----------------------------------------------------------------------------
(* Currency server: unary GetRate and the rate store's shutdown            *)

\* The RateRequests of the unary GetRate. GBP is not in the table.
GetRateInputs ==
    {Rq("UNKNOWN", "UNKNOWN"), Rq("EUR", "EUR"), Rq("UNKNOWN", "USD"),
     Rq("EUR", "UNKNOWN"), Rq("EUR", "USD"), Rq("USD", "EUR"),
     Rq("EUR", "GBP"), Rq("GBP", "EUR")}

\* The reply of the unary GetRate: a status code and, with OK, the rate.
Reply(c, r) == [code |-> c, rate |-> r]

StoreInit ==
    /\ stClosed = FALSE
    /\ stClosePc = "idle"
    /\ nRecv = 0
    /\ grPc = "idle"
    /\ grReq = Rq("UNKNOWN", "UNKNOWN")
    /\ grBr = 0
    /\ grOut = Reply("none", 0)

\* Currency.GetRate, parameter checks: equal codes, then each UNKNOWN.
InvalidGetRate(rr) ==
    rr.base = rr.dest \/ rr.base = "UNKNOWN" \/ rr.dest = "UNKNOWN"

\* Currency.GetRate up to br, ok := e.rates[base]: an invalid request is
\* answered InvalidArgument; otherwise ExchangeRates.GetRate takes the read
\* lock and reads the base rate, and an absent base is answered NotFound.
GetRateBegin(rr) ==
    /\ grPc = "idle"
    /\ grReq' = rr
    /\ IF InvalidGetRate(rr)
       THEN /\ grOut' = Reply("InvalidArgument", 0)
            /\ UNCHANGED <<grPc, grBr>>
       ELSE IF rr.base \notin DOMAIN rates
       THEN /\ grOut' = Reply("NotFound", 0)
            /\ UNCHANGED <<grPc, grBr>>
       ELSE /\ grPc' = "locked"
            /\ grBr' = rates[rr.base]
            /\ grOut' = Reply("none", 0)
    /\ last' = [op |-> "GetRate", s |-> "none"]
    /\ UNCHANGED <<stClosed, stClosePc, nRecv>>
    /\ UNCHANGED srvVars
    /\ UNCHANGED <<nonServerVars, hearVars, retVars>>

\* ExchangeRates.GetRate from dr, ok := e.rates[dest] on: NotFound for an
\* absent destination, otherwise dr / br; the read lock is released.
GetRateEnd ==
    /\ grPc = "locked"
    /\ grPc' = "idle"
    /\ grOut' = IF grReq.dest \notin DOMAIN rates THEN Reply("NotFound", 0)
               ELSE Reply("OK", (rates[grReq.dest] * One) \div grBr)
    /\ last' = [op |-> "GetRateEnd", s |-> "none"]
    /\ UNCHANGED <<stClosed, stClosePc, nRecv, grReq, grBr>>
    /\ UNCHANGED srvVars
    /\ UNCHANGED <<nonServerVars, hearVars, retVars>>

\* ExchangeRates.Close: close(e.closeCh), then e.wg.Wait().
StoreClose ==
    /\ stClosePc = "idle"
    /\ stClosed' = TRUE
    /\ stClosePc' = "waiting"
    /\ last' = [op |-> "StoreClose", s |-> "none"]
    /\ UNCHANGED <<nRecv, grPc, grReq, grBr, grOut>>
    /\ UNCHANGED srvVars
    /\ UNCHANGED <<nonServerVars, hearVars, retVars>>

\* MonitorRates, case <-e.closeCh: return (the deferred wg.Done runs).
MonitorStop ==
    /\ monPc = "select"
    /\ stClosed
    /\ monPc' = "done"
    /\ sent' = <<>>
    /\ last' = [op |-> "MonitorStop", s |-> "none"]
    /\ UNCHANGED <<rates, nTicks, subs, conn, hpc, fanPc, fanTodo, fanSnap,
                   fanCur, fanReqs, now, cleanupDue, written, fanWritten,
                   reaped>>
    /\ UNCHANGED nonSrvVars

\* e.wg.Wait() returns once the monitor has returned.
StoreCloseReturn ==
    /\ stClosePc = "waiting"
    /\ monPc = "done"
    /\ stClosePc' = "returned"
    /\ last' = [op |-> "StoreCloseReturn", s |-> "none"]
    /\ UNCHANGED <<stClosed, nRecv, grPc, grReq, grBr, grOut>>
    /\ UNCHANGED srvVars
    /\ UNCHANGED <<nonServerVars, hearVars, retVars>>

\* The rate store with its monitor, the loop that receives the
\* notifications (no stream is subscribed), GetRate calls and Close.
StoreNext ==
    \/ MonitorTick(Factors)
    \/ FanOutReceive
    \/ \E rr \in GetRateInputs : GetRateBegin(rr)
    \/ GetRateEnd
    \/ StoreClose
    \/ MonitorStop
    \/ StoreCloseReturn

\* The monitor, the caller of Close and a reader holding the lock keep
\* running; nothing obliges the consumer of the notifications to receive.
StoreFairness ==
    /\ SF_vars(MonitorStop)
    /\ WF_vars(StoreCloseReturn)
    /\ WF_vars(GetRateEnd)

----------------------------------------------------------------------------
(* Rate client: currencyService of product-api                             *)

\* Number of streams the client can establish in a run.
MaxStreams == 3

CliCurrencies == {"USD", "GBP"}

CliInit ==
    /\ cPc = "new"
    /\ cStream = 0
    /\ cMade = 0
    /\ cBroken = {}
    /\ cSendClosed = 0
    /\ cSubs = {}
    /\ cClosed = FALSE
    /\ hbTimer = "armed"
    /\ hbPc = "none"
    /\ ruPc = "none"
    /\ ruOn = 0
    /\ cSentOn = {}
    /\ cRates = [c \in CliCurrencies |-> 0]
    /\ cOut = <<>>

Op(name) == [op |-> name, s |-> "none"]

By(name, k) == [op |-> name, s |-> k]

\* Rates a message or a unary reply can carry, in 1/One units.
RateVals == {110, 120}

\* What a step of the client puts out.
Out(k, c, r) == [kind |-> k, cur |-> c, rate |-> r]
RateChanged(c, r) == Out("RateChanged", c, r)
SubscribeRequest(c) == Out("request", c, 0)
HeartbeatRequest == Out("heartbeat", "UNKNOWN", 0)
UnaryGetRate(c) == Out("GetRate", c, 0)

\* !exists || oldRate != newRate, with old = 0 for a currency without entry.
RateIsNewsOnlyIfCached(old, new) == old # 0 /\ old # new

RateIsNews(old, new) == old = 0 \/ old # new

\* The messages Recv can return: a RateResponse or an error status.
RateMsg(c, r) == [kind |-> "rate", cur |-> c, rate |-> r]
ErrorMsg == [kind |-> "error", cur |-> "UNKNOWN", rate |-> 0]
ClientMsgs == {RateMsg(c, r) : c \in CliCurrencies, r \in RateVals}
                  \cup {ErrorMsg}

\* ticker := time.NewTimer(1 * time.Minute): the timer delivers one value on
\* its channel and is never reset.
TimerAfterFire == "spent"

\* initializeStream: client.SubscribeRates either fails, leaving s.stream as
\* it is, or returns a new stream which replaces s.stream. Nothing else of
\* the service is touched: s.subscriptions is kept and no request is sent.
initializeStream(cur, n) ==
    {[ok |-> FALSE, stream |-> cur, made |-> n]}
        \cup (IF n < MaxStreams
              THEN {[ok |-> TRUE, stream |-> n + 1, made |-> n + 1]}
              ELSE {})

\* stream.Send succeeds on a stream whose transport is up and on which
\* CloseSend has not been called.
CanSend(g) == g # 0 /\ g \notin cBroken /\ g # cSendClosed

\* The requests sent on the stream s.stream will be after a step that leaves
\* the client with stream g: a new stream has seen none yet.
SentOnAfter(g) == IF g = cStream THEN cSentOn ELSE {}

\* NewCurrencyService: the first initializeStream (an error is only logged),
\* then the two goroutines start.
NewCurrencyService ==
    /\ cPc = "new"
    /\ \E o \in initializeStream(cStream, cMade) :
          /\ cStream' = o.stream
          /\ cMade' = o.made
    /\ cPc' = "running"
    /\ hbPc' = "run"
    /\ ruPc' = "select"
    /\ last' = Op("NewCurrencyService")
    /\ UNCHANGED <<cBroken, cSendClosed, cSubs, cClosed, hbTimer, ruOn,
                   cSentOn>>
    /\ cOut' = <<>>
    /\ UNCHANGED cRates
    /\ UNCHANGED callVars
    /\ UNCHANGED closeVars
    /\ UNCHANGED nonCliVars

\* One minute after the timer was started its channel receives a value.
MinuteElapses ==
    /\ cPc = "running"
    /\ hbTimer = "armed"
    /\ hbTimer' = "fired"
    /\ last' = NoOp
    /\ UNCHANGED <<cPc, cStream, cMade, cBroken, cSendClosed, cSubs, cClosed,
                   hbPc, ruPc, ruOn, cSentOn>>
    /\ cOut' = <<>>
    /\ UNCHANGED cRates
    /\ UNCHANGED callVars
    /\ UNCHANGED closeVars
    /\ UNCHANGED nonCliVars

\* handleHeartbeat, case <-ticker.C: establish a stream if there is none
\* (on failure: continue), send the heartbeat, and on a failed send
\* reinitialise the stream.
HeartbeatRound ==
    /\ hbPc = "run"
    /\ hbTimer = "fired"
    /\ hbTimer' = TimerAfterFire
    /\ \E o \in (IF cStream = 0
                 THEN initializeStream(cStream, cMade)
                 ELSE {[ok |-> TRUE, stream |-> cStream, made |-> cMade]}) :
          IF ~o.ok
          THEN /\ last' = Op("HeartbeatNoStream")
               /\ cOut' = <<>>
               /\ UNCHANGED <<cStream, cMade, cSentOn>>
          ELSE IF CanSend(o.stream)
          THEN /\ last' = Op("HeartbeatSent")
               /\ cOut' = <<HeartbeatRequest>>
               /\ cStream' = o.stream
               /\ cMade' = o.made
               /\ cSentOn' = SentOnAfter(o.stream)
          ELSE \E r \in initializeStream(o.stream, o.made) :
               /\ last' = Op("HeartbeatFailed")
               /\ cOut' = <<>>
               /\ cStream' = r.stream
               /\ cMade' = r.made
               /\ cSentOn' = SentOnAfter(r.stream)
    /\ UNCHANGED <<cPc, cBroken, cSendClosed, cSubs, cClosed, hbPc, ruPc,
                   ruOn>>
    /\ UNCHANGED cRates
    /\ UNCHANGED callVars
    /\ UNCHANGED closeVars
    /\ UNCHANGED nonCliVars

\* handleHeartbeat, case <-s.closeCh: return.
HeartbeatStop ==
    /\ hbPc = "run"
    /\ cClosed
    /\ hbPc' = "done"
    /\ last' = Op("HeartbeatStop")
    /\ UNCHANGED <<cPc, cStream, cMade, cBroken, cSendClosed, cSubs, cClosed,
                   hbTimer, ruPc, ruOn, cSentOn>>
    /\ cOut' = <<>>
    /\ UNCHANGED cRates
    /\ UNCHANGED callVars
    /\ UNCHANGED closeVars
    /\ UNCHANGED nonCliVars

\* handleRateUpdates, select: s.closeCh is not closed, the default case runs.
RateUpdatesDefault ==
    /\ ruPc = "select"
    /\ ~cClosed
    /\ ruPc' = "default"
    /\ last' = NoOp
    /\ UNCHANGED <<cPc, cStream, cMade, cBroken, cSendClosed, cSubs, cClosed,
                   hbTimer, hbPc, ruOn, cSentOn>>
    /\ cOut' = <<>>
    /\ UNCHANGED cRates
    /\ UNCHANGED callVars
    /\ UNCHANGED closeVars
    /\ UNCHANGED nonCliVars

\* handleRateUpdates, default case: read s.stream; with a nil stream sleep
\* five seconds and go round, otherwise call s.stream.Recv().
RateUpdatesRecv ==
    /\ ruPc = "default"
    /\ IF cStream = 0
       THEN ruPc' = "select" /\ ruOn' = 0
       ELSE ruPc' = "recv" /\ ruOn' = cStream
    /\ last' = NoOp
    /\ UNCHANGED <<cPc, cStream, cMade, cBroken, cSendClosed, cSubs, cClosed,
                   hbTimer, hbPc, cSentOn>>
    /\ cOut' = <<>>
    /\ UNCHANGED cRates
    /\ UNCHANGED callVars
    /\ UNCHANGED closeVars
    /\ UNCHANGED nonCliVars

\* handleRateUpdates, case <-s.closeCh: return.
RateUpdatesStop ==
    /\ ruPc = "select"
    /\ cClosed
    /\ ruPc' = "done"
    /\ last' = Op("RateUpdatesStop")
    /\ UNCHANGED <<cPc, cStream, cMade, cBroken, cSendClosed, cSubs, cClosed,
                   hbTimer, hbPc, ruOn, cSentOn>>
    /\ cOut' = <<>>
    /\ UNCHANGED cRates
    /\ UNCHANGED callVars
    /\ UNCHANGED closeVars
    /\ UNCHANGED nonCliVars

\* Recv returns a message. A RateResponse is stored in s.rates under the
\* write lock, and RateChanged is published if the currency had no entry or
\* the entry differed; an error status is only logged. The loop goes round.
rateUpdatesMessage(m) ==
    /\ ruPc = "recv"
    /\ ruOn \notin cBroken
    /\ ruPc' = "select"
    /\ ruOn' = 0
    /\ last' = Op("RateUpdatesMessage")
    /\ IF m.kind = "rate"
       THEN /\ cRates' = [cRates EXCEPT ![m.cur] = m.rate]
            /\ cOut' = IF RateIsNews(cRates[m.cur], m.rate)
                       THEN <<RateChanged(m.cur, m.rate)>>
                       ELSE <<>>
       ELSE /\ cOut' = <<>>
            /\ UNCHANGED cRates
    /\ UNCHANGED <<cPc, cStream, cMade, cBroken, cSendClosed, cSubs, cClosed,
                   hbTimer, hbPc, cSentOn>>
    /\ UNCHANGED callVars
    /\ UNCHANGED closeVars

RateUpdatesMessage(m) == rateUpdatesMessage(m) /\ UNCHANGED nonCliVars

\* Recv returns an error (transport failure, or end of stream after
\* CloseSend): reinitialise the stream, sleep five seconds, go round.
RateUpdatesError ==
    /\ ruPc = "recv"
    /\ ruOn \in cBroken \/ ruOn = cSendClosed
    /\ \E r \in initializeStream(cStream, cMade) :
          /\ cStream' = r.stream
          /\ cMade' = r.made
          /\ cSentOn' = SentOnAfter(r.stream)
          /\ last' = Op(IF r.ok THEN "RateUpdatesReinit"
                        ELSE "RateUpdatesReinitFailed")
    /\ ruPc' = "select"
    /\ ruOn' = 0
    /\ UNCHANGED <<cPc, cBroken, cSendClosed, cSubs, cClosed, hbTimer, hbPc>>
    /\ cOut' = <<>>
    /\ UNCHANGED cRates
    /\ UNCHANGED callVars
    /\ UNCHANGED closeVars
    /\ UNCHANGED nonCliVars

\* The transport of a stream in use fails.
StreamBreaks(g) ==
    /\ g \in {cStream, ruOn} \ ({0} \cup cBroken)
    /\ cBroken' = cBroken \cup {g}
    /\ last' = NoOp
    /\ UNCHANGED <<cPc, cStream, cMade, cSendClosed, cSubs, cClosed, hbTimer,
                   hbPc, ruPc, ruOn, cSentOn>>
    /\ cOut' = <<>>
    /\ UNCHANGED cRates
    /\ UNCHANGED callVars
    /\ UNCHANGED closeVars
    /\ UNCHANGED nonCliVars

\* SubscribeToRates(ctx, []string{c}): establish a stream if there is none
\* (on failure: return the error); a currency already in s.subscriptions is
\* skipped; otherwise it is put in s.subscriptions and then its request is
\* sent, and a failed send returns the error.
SubscribeToRates(c) ==
    /\ cPc = "running"
    /\ \E o \in (IF cStream = 0
                 THEN initializeStream(cStream, cMade)
                 ELSE {[ok |-> TRUE, stream |-> cStream, made |-> cMade]}) :
          IF ~o.ok
          THEN /\ last' = Op("SubscribeNoStream")
               /\ cOut' = <<>>
               /\ UNCHANGED <<cStream, cMade, cSubs, cSentOn>>
          ELSE /\ cStream' = o.stream
               /\ cMade' = o.made
               /\ IF c \in cSubs
                  THEN /\ last' = Op("SubscribeSkipped")
                       /\ cOut' = <<>>
                       /\ cSentOn' = SentOnAfter(o.stream)
                       /\ UNCHANGED cSubs
                  ELSE /\ cSubs' = cSubs \cup {c}
                       /\ IF CanSend(o.stream)
                          THEN /\ last' = Op("SubscribeSent")
                               /\ cOut' = <<SubscribeRequest(c)>>
                               /\ cSentOn' = SentOnAfter(o.stream) \cup {c}
                          ELSE /\ last' = Op("SubscribeSendFailed")
                               /\ cOut' = <<>>
                               /\ cSentOn' = SentOnAfter(o.stream)
    /\ UNCHANGED <<cPc, cBroken, cSendClosed, cClosed, hbTimer, hbPc, ruPc,
                   ruOn>>
    /\ UNCHANGED cRates
    /\ UNCHANGED callVars
    /\ UNCHANGED closeVars
    /\ UNCHANGED nonCliVars

Closers == {"m1", "m2"}

CloseInit ==
    /\ onceCs = "idle"
    /\ clPc = [k \in Closers |-> "idle"]
    /\ nCloseCh = 0
    /\ nCloseSend = 0

\* s.once.Do(f) runs f for the first caller only.
OnceFreeAlways == TRUE

OnceFree == onceCs = "idle"

\* Close, the first caller, inside once.Do: close(s.closeCh), then CloseSend
\* on the stream if there is one; the caller then waits in s.wg.Wait().
Close(k) ==
    /\ cPc = "running"
    /\ clPc[k] = "idle"
    /\ OnceFree
    /\ onceCs' = "running"
    /\ clPc' = [clPc EXCEPT ![k] = "body"]
    /\ cClosed' = TRUE
    /\ nCloseCh' = nCloseCh + 1
    /\ IF cStream # 0
       THEN cSendClosed' = cStream /\ nCloseSend' = nCloseSend + 1
       ELSE UNCHANGED <<cSendClosed, nCloseSend>>
    /\ last' = By("Close", k)
    /\ UNCHANGED <<cPc, cStream, cMade, cBroken, cSubs, hbTimer, hbPc, ruPc,
                   ruOn, cSentOn>>
    /\ cOut' = <<>>
    /\ UNCHANGED cRates
    /\ UNCHANGED callVars
    /\ UNCHANGED nonCliVars

\* The frame of the steps of Close that touch only the once and the callers.
closeFrame == <<cPc, cStream, cMade, cBroken, cSendClosed, cSubs, cClosed,
                hbTimer, hbPc, ruPc, ruOn, cSentOn, cRates>>

\* Close, a caller arriving while another is inside once.Do: it blocks.
CloseWait(k) ==
    /\ cPc = "running"
    /\ clPc[k] = "idle"
    /\ onceCs = "running"
    /\ clPc' = [clPc EXCEPT ![k] = "waiting"]
    /\ last' = By("CloseWait", k)
    /\ cOut' = <<>>
    /\ UNCHANGED <<onceCs, nCloseCh, nCloseSend>>
    /\ UNCHANGED closeFrame
    /\ UNCHANGED callVars
    /\ UNCHANGED nonCliVars

\* Close, the first caller: s.wg.Wait() returns when handleRateUpdates and
\* handleHeartbeat have returned; once.Do is over and Close returns.
CloseJoin(k) ==
    /\ clPc[k] = "body"
    /\ hbPc = "done"
    /\ ruPc = "done"
    /\ onceCs' = "done"
    /\ clPc' = [clPc EXCEPT ![k] = "returned"]
    /\ last' = By("CloseJoin", k)
    /\ cOut' = <<>>
    /\ UNCHANGED <<nCloseCh, nCloseSend>>
    /\ UNCHANGED closeFrame
    /\ UNCHANGED callVars
    /\ UNCHANGED nonCliVars

\* Close, a later caller: once.Do has been done, Close returns nil.
CloseAgain(k) ==
    /\ cPc = "running"
    /\ clPc[k] \in {"idle", "waiting"}
    /\ onceCs = "done"
    /\ clPc' = [clPc EXCEPT ![k] = "returned"]
    /\ last' = By("CloseAgain", k)
    /\ cOut' = <<>>
    /\ UNCHANGED <<onceCs, nCloseCh, nCloseSend>>
    /\ UNCHANGED closeFrame
    /\ UNCHANGED callVars
    /\ UNCHANGED nonCliVars

ClientNext ==
    \/ NewCurrencyService
    \/ MinuteElapses
    \/ HeartbeatRound
    \/ HeartbeatStop
    \/ RateUpdatesDefault
    \/ RateUpdatesRecv
    \/ RateUpdatesStop
    \/ RateUpdatesMessage(ErrorMsg)
    \/ RateUpdatesError
    \/ \E g \in 1..MaxStreams : StreamBreaks(g)
    \/ \E c \in CliCurrencies : SubscribeToRates(c)
    \/ \E k \in Closers : Close(k)

\* Shutdown: Close called by two goroutines while the heartbeat and the
\* receiver run on a stream that can fail.
CloseNext ==
    \/ NewCurrencyService
    \/ MinuteElapses
    \/ HeartbeatRound
    \/ HeartbeatStop
    \/ RateUpdatesDefault
    \/ RateUpdatesRecv
    \/ RateUpdatesStop
    \/ RateUpdatesMessage(ErrorMsg)
    \/ RateUpdatesError
    \/ \E g \in 1..MaxStreams : StreamBreaks(g)
    \/ \E k \in Closers : Close(k)
    \/ \E k \in Closers : CloseWait(k)
    \/ \E k \in Closers : CloseJoin(k)
    \/ \E k \in Closers : CloseAgain(k)

\* The scheduler runs a goroutine that can take a step, and time passes.
ClientFairness ==
    /\ WF_vars(MinuteElapses)
    /\ WF_vars(HeartbeatRound)
    /\ WF_vars(HeartbeatStop)
    /\ WF_vars(RateUpdatesDefault)
    /\ WF_vars(RateUpdatesRecv)
    /\ WF_vars(RateUpdatesStop)
    /\ WF_vars(RateUpdatesError)
    /\ WF_vars(NewCurrencyService)

\* The callers of Close are scheduled too.
CloseFairness ==
    /\ ClientFairness
    /\ \A k \in Closers : WF_vars(CloseJoin(k))
    /\ \A k \in Closers : WF_vars(CloseAgain(k))


----------------------------------------------------------------------------
(* Rate client: GetRate and SubscribeToRates called from request goroutines *)

Callers == {"k1", "k2"}

\* The currencies the calls explored ask for.
CallCurrencies == {"USD"}

CallInit ==
    /\ kPc = [k \in Callers |-> "idle"]
    /\ kCur = [k \in Callers |-> "USD"]
    /\ kRate = [k \in Callers |-> 0]
    /\ kSeen = [k \in Callers |-> FALSE]
    /\ subMutex = "none"
    /\ cReqCount = [c \in CliCurrencies |-> 0]

\* What a call hands back to its caller.
Returned(c, r) == Out("return", c, r)
ReturnedError(c) == Out("error", c, 0)

\* s.subMutex.Lock() goes through when nobody holds the mutex.
CanLockSubAlways == TRUE

CanLockSub == subMutex = "none"

\* The variables of the service the calls leave alone.
callFrame == <<cPc, cBroken, cSendClosed, cClosed, hbTimer, hbPc, ruPc, ruOn>>

\* GetRate(ctx, "EUR", c), l.156-171: read s.rates under the read lock; a
\* hit returns the cached rate, a miss issues the unary GetRate.
GetRateCall(k, c) ==
    /\ cPc = "running"
    /\ kPc[k] = "idle"
    /\ IF cRates[c] # 0
       THEN /\ cOut' = <<Returned(c, cRates[c])>>
            /\ last' = By("GetRateHit", k)
            /\ UNCHANGED <<kPc, kCur, kRate>>
       ELSE /\ cOut' = <<UnaryGetRate(c)>>
            /\ last' = By("GetRateMiss", k)
            /\ kPc' = [kPc EXCEPT ![k] = "unary"]
            /\ kCur' = [kCur EXCEPT ![k] = c]
            /\ kRate' = [kRate EXCEPT ![k] = 0]
    /\ UNCHANGED <<kSeen, subMutex, cReqCount, cRates>>
    /\ UNCHANGED <<cStream, cMade, cSubs, cSentOn>>
    /\ UNCHANGED callFrame
    /\ UNCHANGED closeVars
    /\ UNCHANGED nonCliVars

\* GetRate, l.173-190: the unary call fails and the error is returned, or it
\* answers with a rate, which is stored in s.rates under the write lock
\* before SubscribeToRates is called for the currency.
GetRateReply(k) ==
    /\ kPc[k] = "unary"
    /\ \/ /\ kPc' = [kPc EXCEPT ![k] = "idle"]
          /\ cOut' = <<ReturnedError(kCur[k])>>
          /\ last' = By("GetRateFailed", k)
          /\ UNCHANGED <<kRate, cRates>>
       \/ \E r \in RateVals :
          /\ cRates' = [cRates EXCEPT ![kCur[k]] = r]
          /\ kRate' = [kRate EXCEPT ![k] = r]
          /\ kPc' = [kPc EXCEPT ![k] = "enter"]
          /\ cOut' = <<>>
          /\ last' = By("GetRateStored", k)
    /\ UNCHANGED <<kCur, kSeen, subMutex, cReqCount>>
    /\ UNCHANGED <<cStream, cMade, cSubs, cSentOn>>
    /\ UNCHANGED callFrame
    /\ UNCHANGED closeVars
    /\ UNCHANGED nonCliVars

\* SubscribeToRates(ctx, []string{c}) called from outside GetRate.
SubscribeCall(k, c) ==
    /\ cPc = "running"
    /\ kPc[k] = "idle"
    /\ kPc' = [kPc EXCEPT ![k] = "enter"]
    /\ kCur' = [kCur EXCEPT ![k] = c]
    /\ kRate' = [kRate EXCEPT ![k] = 0]
    /\ cOut' = <<>>
    /\ last' = By("SubscribeCall", k)
    /\ UNCHANGED <<kSeen, subMutex, cReqCount, cRates>>
    /\ UNCHANGED <<cStream, cMade, cSubs, cSentOn>>
    /\ UNCHANGED callFrame
    /\ UNCHANGED closeVars
    /\ UNCHANGED nonCliVars

CallResultOfSubscribe(k, ok) ==
    IF ok THEN Returned(kCur[k], kRate[k]) ELSE ReturnedError(kCur[k])

\* What the call of k hands back when SubscribeToRates is over: GetRate
\* returns resp.Rate whatever SubscribeToRates returned (its error is only
\* logged); a direct call returns nil or the error.
CallResult(k, ok) ==
    IF kRate[k] # 0 THEN Returned(kCur[k], kRate[k])
    ELSE IF ok THEN Returned(kCur[k], 0)
    ELSE ReturnedError(kCur[k])

\* SubscribeToRates, l.199-205: with a nil stream call initializeStream and
\* return its error; then go for s.subMutex.
SubscribeEnter(k) ==
    /\ kPc[k] = "enter"
    /\ \E o \in (IF cStream = 0
                 THEN initializeStream(cStream, cMade)
                 ELSE {[ok |-> TRUE, stream |-> cStream, made |-> cMade]}) :
          IF ~o.ok
          THEN /\ kPc' = [kPc EXCEPT ![k] = "idle"]
               /\ cOut' = <<CallResult(k, FALSE)>>
               /\ last' = By("SubscribeNoStream", k)
               /\ UNCHANGED <<cStream, cMade, cSentOn>>
          ELSE /\ kPc' = [kPc EXCEPT ![k] = "lock"]
               /\ cOut' = <<>>
               /\ last' = By("SubscribeEnter", k)
               /\ cStream' = o.stream
               /\ cMade' = o.made
               /\ cSentOn' = SentOnAfter(o.stream)
    /\ UNCHANGED <<kCur, kRate, kSeen, subMutex, cReqCount, cRates, cSubs>>
    /\ UNCHANGED callFrame
    /\ UNCHANGED closeVars
    /\ UNCHANGED nonCliVars

\* SubscribeToRates, l.205-208: take s.subMutex and look the currency up in
\* s.subscriptions.
SubscribeLock(k) ==
    /\ kPc[k] = "lock"
    /\ CanLockSub
    /\ subMutex' = k
    /\ kSeen' = [kSeen EXCEPT ![k] = kCur[k] \in cSubs]
    /\ kPc' = [kPc EXCEPT ![k] = "locked"]
    /\ cOut' = <<>>
    /\ last' = By("SubscribeLock", k)
    /\ UNCHANGED <<kCur, kRate, cReqCount, cRates>>
    /\ UNCHANGED <<cStream, cMade, cSubs, cSentOn>>
    /\ UNCHANGED callFrame
    /\ UNCHANGED closeVars
    /\ UNCHANGED nonCliVars

\* SubscribeToRates, l.208-226: a currency found in s.subscriptions is
\* skipped; otherwise it is put there and its request is sent on s.stream. The
\* mutex is released and the call returns (the error of a failed send).
SubscribeSend(k) ==
    /\ kPc[k] = "locked"
    /\ subMutex' = "none"
    /\ kPc' = [kPc EXCEPT ![k] = "idle"]
    /\ IF kSeen[k]
       THEN /\ cOut' = <<CallResult(k, TRUE)>>
            /\ last' = By("SubscribeSkipped", k)
            /\ UNCHANGED <<cSubs, cSentOn, cReqCount>>
       ELSE /\ cSubs' = cSubs \cup {kCur[k]}
            /\ IF CanSend(cStream)
               THEN /\ cOut' = <<SubscribeRequest(kCur[k]), CallResult(k, TRUE)>>
                    /\ last' = By("SubscribeSent", k)
                    /\ cSentOn' = cSentOn \cup {kCur[k]}
                    /\ cReqCount' = [cReqCount EXCEPT ![kCur[k]] = @ + 1]
               ELSE /\ cOut' = <<CallResult(k, FALSE)>>
                    /\ last' = By("SubscribeSendFailed", k)
                    /\ UNCHANGED <<cSentOn, cReqCount>>
    /\ UNCHANGED <<kCur, kRate, kSeen, cRates, cStream, cMade>>
    /\ UNCHANGED callFrame
    /\ UNCHANGED closeVars
    /\ UNCHANGED nonCliVars

\* The cache, the receiver and concurrent calls of GetRate and
\* SubscribeToRates on a stream that can fail; no heartbeat, no shutdown.
RatesNext ==
    \/ NewCurrencyService
    \/ RateUpdatesDefault
    \/ RateUpdatesRecv
    \/ \E m \in ClientMsgs : RateUpdatesMessage(m)
    \/ RateUpdatesError
    \/ \E g \in 1..MaxStreams : StreamBreaks(g)
    \/ \E k \in Callers, c \in CallCurrencies : GetRateCall(k, c)
    \/ \E k \in Callers : GetRateReply(k)
    \/ \E k \in Callers, c \in CallCurrencies : SubscribeCall(k, c)
    \/ \E k \in Callers : SubscribeEnter(k)
    \/ \E k \in Callers : SubscribeLock(k)
    \/ \E k \in Callers : SubscribeSend(k)


----------------------------------------------------------------------------
(* Product repository and price projector                                  *)

\* Calls of Add explored.
MaxAdds == 2

\* Prices, in cents.
Prices == {199, 245}

Product(i, p) == [id |-> i, price |-> p]

\* An array slot that holds no product (nil).
NoProduct == Product(0, 0)

\* NewMemoryProductRepository: two products, in a slice of length and
\* capacity two.
SeedProducts == <<Product(1, 245), Product(2, 199)>>

\* The events on the bus.
Ev(k, i, v, c) == [kind |-> k, id |-> i, val |-> v, cur |-> c]
RateChangedEv(c, r) == Ev("RateChanged", 0, r, c)
PriceUpdate(i, v, c) == Ev("PriceUpdate", i, v, c)
ProductAdded(i) == Ev("ProductAdded", i, 0, "none")
ProductUpdated(i) == Ev("ProductUpdated", i, 0, "none")
ProductDeleted(i) == Ev("ProductDeleted", i, 0, "none")

\* The events the projector's subscriber channel delivers.
ProjectorEvents ==
    {RateChangedEv("USD", 110), ProductAdded(1), PriceUpdate(1, 26950, "USD")}

CatInit ==
    /\ rArr = SeedProducts
    /\ rLen = 2
    /\ nAdds = 0
    /\ issued = {}
    /\ pjPc = "idle"
    /\ pjEv = RateChangedEv("USD", 110)
    /\ pjShared = FALSE
    /\ pjArr = <<>>
    /\ pjLen = 0
    /\ pjIdx = 1
    /\ pjFetched = <<>>
    /\ pjPub = <<>>

\* r.products: the first len slots of the backing array.
Products == SubSeq(rArr, 1, rLen)

IndexOfOrFirst(i) ==
    IF \E j \in 1..rLen : rArr[j].id = i
    THEN CHOOSE j \in 1..rLen : rArr[j].id = i
    ELSE IF rLen > 0 THEN 1 ELSE 0

\* Index of the product with the id in r.products, 0 if there is none.
IndexOf(i) ==
    IF \E j \in 1..rLen : rArr[j].id = i
    THEN CHOOSE j \in 1..rLen : rArr[j].id = i /\ \A l \in 1..(j - 1) : rArr[l].id # i
    ELSE 0

\* getNextID: the id of the last product plus one, 1 for an empty slice.
getNextIDByLength == rLen + 1

getNextID == IF rLen = 0 THEN 1 ELSE rArr[rLen].id + 1

\* append grows a full slice into a new array of twice the capacity.
GrownCap(c) == IF c = 0 THEN 1 ELSE 2 * c

projVars == <<pjPc, pjEv, pjLen, pjIdx, pjFetched, pjPub>>

\* Add: the product gets getNextID() and is appended, in place when the
\* array has a free slot, otherwise in a new array (the slice GetAll handed
\* out keeps the old one).
repoAdd(p) ==
    /\ nAdds < MaxAdds
    /\ nAdds' = nAdds + 1
    /\ issued' = issued \cup {getNextID}
    /\ rLen' = rLen + 1
    /\ IF rLen < Len(rArr)
       THEN /\ rArr' = [rArr EXCEPT ![rLen + 1] = Product(getNextID, p)]
            /\ UNCHANGED <<pjShared, pjArr>>
       ELSE /\ rArr' = [j \in 1..GrownCap(Len(rArr)) |->
                          IF j <= rLen THEN rArr[j]
                          ELSE IF j = rLen + 1 THEN Product(getNextID, p)
                          ELSE NoProduct]
            /\ pjShared' = FALSE
            /\ pjArr' = IF pjShared THEN rArr ELSE pjArr
    /\ last' = [op |-> "Add", s |-> "none"]
    /\ UNCHANGED projVars

Add(p) == repoAdd(p) /\ UNCHANGED nonCatVars

\* Update: the slot of the product with the same id is overwritten; an
\* unknown id is ErrProductNotFound.
repoUpdate(i, p) ==
    /\ IF IndexOf(i) # 0
       THEN /\ rArr' = [rArr EXCEPT ![IndexOf(i)] = Product(i, p)]
            /\ last' = [op |-> "Update", s |-> "none"]
       ELSE /\ UNCHANGED rArr
            /\ last' = [op |-> "UpdateNotFound", s |-> "none"]
    /\ UNCHANGED <<rLen, nAdds, issued, pjShared, pjArr>>
    /\ UNCHANGED projVars

Update(i, p) == repoUpdate(i, p) /\ UNCHANGED nonCatVars

\* Delete: append(r.products[:i], r.products[i+1:]...) moves the products
\* after i one slot down inside the same array and shortens the slice; the
\* slot after the new end keeps its old content.
repoDelete(i) ==
    /\ IF IndexOf(i) # 0
       THEN /\ rArr' = [j \in 1..Len(rArr) |->
                          IF j >= IndexOf(i) /\ j < rLen THEN rArr[j + 1]
                          ELSE rArr[j]]
            /\ rLen' = rLen - 1
            /\ last' = [op |-> "Delete", s |-> "none"]
       ELSE /\ UNCHANGED <<rArr, rLen>>
            /\ last' = [op |-> "DeleteNotFound", s |-> "none"]
    /\ UNCHANGED <<nAdds, issued, pjShared, pjArr>>
    /\ UNCHANGED projVars

Delete(i) == repoDelete(i) /\ UNCHANGED nonCatVars

ProjectorAnyTime == TRUE

\* handleRateChanges is at the head of its range loop, between two events.
ProjectorAtRange == pjPc = "idle"

\* handleRateChanges receives an event. Anything but a RateChanged is
\* dropped. For a RateChanged, GetAll returns r.products itself (the slice
\* header, under the read lock): the array is not copied.
projectorReceive(e) ==
    /\ ProjectorAtRange
    /\ pjPub' = <<>>
    /\ IF e.kind = "RateChanged"
       THEN /\ pjEv' = e
            /\ pjShared' = TRUE
            /\ pjLen' = rLen
            /\ pjIdx' = 1
            /\ pjFetched' = Products
            /\ pjPc' = IF rLen = 0 THEN "idle" ELSE "iter"
            /\ last' = [op |-> "ProjectorFetch", s |-> "none"]
       ELSE /\ pjFetched' = <<>>
            /\ last' = [op |-> "ProjectorDrop", s |-> "none"]
            /\ UNCHANGED <<pjEv, pjShared, pjLen, pjIdx, pjPc>>
    /\ UNCHANGED <<rArr, rLen, nAdds, issued, pjArr>>

ProjectorReceive(e) == projectorReceive(e) /\ UNCHANGED nonCatVars

\* The array the projector's slice points into.
ProjectorArray == IF pjShared THEN rArr ELSE pjArr

\* One round of the range loop: read the slot, publish its PriceUpdate.
projectorPublish ==
    /\ pjPc = "iter"
    /\ pjPub' = Append(pjPub, PriceUpdate(ProjectorArray[pjIdx].id,
                                          ProjectorArray[pjIdx].price * pjEv.val,
                                          pjEv.cur))
    /\ pjIdx' = pjIdx + 1
    /\ pjPc' = IF pjIdx = pjLen THEN "idle" ELSE "iter"
    /\ last' = [op |-> "ProjectorPublish", s |-> "none"]
    /\ UNCHANGED <<rArr, rLen, nAdds, issued, pjEv, pjShared, pjArr, pjLen,
                   pjFetched>>

ProjectorPublish == projectorPublish /\ UNCHANGED nonCatVars

\* The ids the callers of Update and Delete name.
ProductIds == 1..(2 + MaxAdds)

\* The repository alone: every add, update and delete.
RepoNext ==
    \/ \E p \in Prices : Add(p)
    \/ \E i \in ProductIds, p \in Prices : Update(i, p)
    \/ \E i \in ProductIds : Delete(i)

\* The projector iterating while products are added, repriced and deleted.
CatalogNext ==
    \/ Add(199)
    \/ Update(1, 199)
    \/ \E i \in ProductIds : Delete(i)
    \/ \E e \in ProjectorEvents : ProjectorReceive(e)
    \/ ProjectorPublish


----------------------------------------------------------------------------
(* Product service: priced reads and mutations                             *)

\* The currency parameter of a read: "" asks for the stored prices.
ReadCurrencies == {"", "USD"}

\* What currencyService.GetRate(ctx, "EUR", currency) returns to a read: a
\* rate in hundredths, or an error.
RateErr == 0
ReadRates == {110, RateErr}

\* The reads: the currency and what GetRate returns for it (GetRate is not
\* called for the empty currency).
Reads == {<<c, r>> \in ReadCurrencies \X ReadRates : c = "" => r = RateErr}

NoEvents == <<>>

\* The result of a service call.
Result(e, ps) == [err |-> e, products |-> ps]

\* A call of the service: the method, the product id, the currency, and the
\* price given (mutations) or the rate GetRate returned (reads).
Call(o, i, c, v) == [op |-> o, id |-> i, cur |-> c, val |-> v]

SvcInit ==
    /\ svOut = Result("none", <<>>)
    /\ svPub = NoEvents
    /\ svCall = Call("none", 0, "", 0)

\* The loop of GetById over the first n slots of arr, from slot j on: the
\* index of the first product with the id; 0 stands for ErrProductNotFound.
RECURSIVE getById(_, _, _, _)
getById(arr, n, i, j) ==
    IF j > n THEN 0
    ELSE IF arr[j].id = i THEN j
    ELSE getById(arr, n, i, j + 1)

GetById(i) == getById(rArr, rLen, i, 1)

\* productCopy := *product; productCopy.Price = productCopy.Price * rate
\* on the product in slot j of the array: the array as it is afterwards and
\* the product handed back.
productCopyInPlace(arr, j, rate) ==
    [arr |-> [arr EXCEPT ![j].price = @ * rate],
     out |-> [arr[j] EXCEPT !.price = @ * rate]]

productCopy(arr, j, rate) ==
    [arr |-> arr, out |-> [arr[j] EXCEPT !.price = @ * rate]]

\* The loop of GetProducts over the first n slots, from slot j on.
RECURSIVE productCopies(_, _, _, _)
productCopies(arr, j, n, rate) ==
    IF j > n THEN [arr |-> arr, out |-> <<>>]
    ELSE LET one == productCopy(arr, j, rate)
             rest == productCopies(one.arr, j + 1, n, rate)
         IN  [arr |-> rest.arr, out |-> <<one.out>> \o rest.out]

\* GetProducts(ctx, c), with r what GetRate returns when it is asked.
GetProducts(c, r) ==
    /\ IF c = ""
       THEN /\ svOut' = Result("none", Products)
            /\ UNCHANGED rArr
       ELSE IF r = RateErr
       THEN /\ svOut' = Result("rate", <<>>)
            /\ UNCHANGED rArr
       ELSE LET res == productCopies(rArr, 1, rLen, r) IN
            /\ svOut' = Result("none", res.out)
            /\ rArr' = res.arr
    /\ svPub' = NoEvents
    /\ svCall' = Call("GetProducts", 0, c, r)
    /\ last' = [op |-> "GetProducts", s |-> c]
    /\ UNCHANGED <<rLen, nAdds, issued, pjShared, pjArr>>
    /\ UNCHANGED projVars
    /\ UNCHANGED nonStoreVars

\* GetProductByID(ctx, i, c), with r what GetRate returns when it is asked.
GetProductByID(i, c, r) ==
    /\ LET j == GetById(i) IN
       IF j = 0
       THEN /\ svOut' = Result("notfound", <<>>)
            /\ UNCHANGED rArr
       ELSE IF c = ""
       THEN /\ svOut' = Result("none", <<rArr[j]>>)
            /\ UNCHANGED rArr
       ELSE IF r = RateErr
       THEN /\ svOut' = Result("rate", <<>>)
            /\ UNCHANGED rArr
       ELSE LET res == productCopy(rArr, j, r) IN
            /\ svOut' = Result("none", <<res.out>>)
            /\ rArr' = res.arr
    /\ svPub' = NoEvents
    /\ svCall' = Call("GetProductByID", i, c, r)
    /\ last' = [op |-> "GetProductByID", s |-> c]
    /\ UNCHANGED <<rLen, nAdds, issued, pjShared, pjArr>>
    /\ UNCHANGED projVars
    /\ UNCHANGED nonStoreVars

\* The error of the repository call just made.
repoErr == IF last'.op \in {"UpdateNotFound", "DeleteNotFound"}
           THEN "notfound" ELSE "none"

\* The events a service mutation publishes: none when the repository
\* returned an error, otherwise the one event.
PublishAlways(e) == <<e>>

PublishOnSuccess(e) == IF repoErr = "none" THEN <<e>> ELSE NoEvents

\* AddProduct: repo.Add, then Publish(ProductAdded{product.ID}).
AddProduct(p) ==
    /\ repoAdd(p)
    /\ svOut' = Result(repoErr, <<>>)
    /\ svPub' = PublishOnSuccess(ProductAdded(getNextID))
    /\ svCall' = Call("AddProduct", 0, "", p)
    /\ UNCHANGED nonStoreVars

\* UpdateProduct: repo.Update, then Publish(ProductUpdated{product.ID}).
UpdateProduct(i, p) ==
    /\ repoUpdate(i, p)
    /\ svOut' = Result(repoErr, <<>>)
    /\ svPub' = PublishOnSuccess(ProductUpdated(i))
    /\ svCall' = Call("UpdateProduct", i, "", p)
    /\ UNCHANGED nonStoreVars

\* DeleteProduct: repo.Delete, then Publish(ProductDeleted{id}).
DeleteProduct(i) ==
    /\ repoDelete(i)
    /\ svOut' = Result(repoErr, <<>>)
    /\ svPub' = PublishOnSuccess(ProductDeleted(i))
    /\ svCall' = Call("DeleteProduct", i, "", 0)
    /\ UNCHANGED nonStoreVars

\* New products come in at one price, updates set the other.
ServiceNext ==
    \/ AddProduct(199)
    \/ \E i \in ProductIds : UpdateProduct(i, 245)
    \/ \E i \in ProductIds : DeleteProduct(i)
    \/ \E q \in Reads : GetProducts(q[1], q[2])
    \/ \E i \in ProductIds, q \in Reads : GetProductByID(i, q[1], q[2])

----------------------------------------------------------------------------
(* product-api: from the rate stream to the price updates                  *)

OrdInit ==
    /\ wire = <<>>
    /\ rcLog = <<>>
    /\ pjQueue = <<>>
    /\ puLog = <<>>

\* EventBus.Publish as the projector's subscription sees it: the event is
\* buffered unless the buffer is full, and then it is dropped.
Buffered(q, item) == IF Len(q) < QueueCap THEN Append(q, item) ELSE q

\* An event in the projector's buffer; rc is the number of the RateChanged
\* among those published, 0 for another event.
Queued(n, e) == [rc |-> n, ev |-> e]

\* A step of the projector: fetching the list for the rc-th RateChanged
\* (pos = 0, of products), or publishing the PriceUpdate of the product id
\* at position pos.
ProjectorStep(n, p, l, i) == [rc |-> n, pos |-> p, of |-> l, id |-> i]

\* handleRateUpdates: Recv returns m, the cache is updated and a RateChanged,
\* if any, is published on the bus.
StreamDelivers(m) ==
    /\ Len(wire) < MaxEvents
    /\ rateUpdatesMessage(m)
    /\ wire' = Append(wire, m)
    /\ IF cOut' # <<>>
       THEN /\ rcLog' = Append(rcLog, [w |-> Len(wire) + 1, ev |-> cOut'[1]])
            /\ pjQueue' = Buffered(pjQueue,
                                   Queued(Len(rcLog) + 1,
                                          RateChangedEv(m.cur, m.rate)))
       ELSE UNCHANGED <<rcLog, pjQueue>>
    /\ UNCHANGED puLog
    /\ UNCHANGED nonCliOrdVars

\* handleRateChanges: the range over s.rateSubscriber yields the next event.
ProjectorTakes ==
    /\ pjQueue # <<>>
    /\ projectorReceive(Head(pjQueue).ev)
    /\ pjQueue' = Tail(pjQueue)
    /\ puLog' = IF Head(pjQueue).ev.kind = "RateChanged"
                THEN Append(puLog, ProjectorStep(Head(pjQueue).rc, 0, rLen, 0))
                ELSE puLog
    /\ UNCHANGED <<wire, rcLog>>
    /\ UNCHANGED nonCatOrdVars

\* handleRateChanges: one PriceUpdate is published on the bus, which
\* buffers it for every subscriber, the projector's own subscription
\* included.
projectorEmits(registered) ==
    /\ projectorPublish
    /\ puLog' = Append(puLog,
                       ProjectorStep(puLog[Len(puLog)].rc,
                                     puLog[Len(puLog)].pos + 1,
                                     puLog[Len(puLog)].of,
                                     pjPub'[Len(pjPub')].id))
    /\ pjQueue' = IF registered
                  THEN Buffered(pjQueue, Queued(0, pjPub'[Len(pjPub')]))
                  ELSE pjQueue
    /\ UNCHANGED <<wire, rcLog>>

ProjectorEmits == projectorEmits(TRUE) /\ UNCHANGED nonCatOrdVars

\* What the stream delivers: rates of one pair, repeated and changing, and an
\* error status.
OrderMsgs == {RateMsg("USD", 110), RateMsg("USD", 120), ErrorMsg}

\* The rate client receiving, the bus subscription of the projector and the
\* projector, while a product is deleted.
OrderNext ==
    \/ NewCurrencyService
    \/ RateUpdatesDefault
    \/ RateUpdatesRecv
    \/ \E m \in OrderMsgs : StreamDelivers(m)
    \/ ProjectorTakes
    \/ ProjectorEmits
    \/ Delete(1)

----------------------------------------------------------------------------
(* product-api: productService.Close and the projector                     *)

\* NewProductService has returned: the queue is subscribed and stored in
\* s.rateSubscriber, wg counts one, and the go statement has been executed;
\* the goroutine has not evaluated its range expression yet.
ShutInit ==
    /\ psSub = "ch"
    /\ psReg = TRUE
    /\ psGo = "spawned"
    /\ psOnce = "idle"
    /\ psCl = [k \in Closers |-> "idle"]
    /\ nUnsub = 0
    /\ nChClosed = 0

\* The range expression of handleRateChanges is evaluated once: the loop is
\* over the channel the field holds then; a range over a nil channel blocks
\* for ever.
RangeOver(field) == IF field = "ch" THEN "ranging" ELSE "nilrange"

\* handleRateChanges starts: s.rateSubscriber is read without
\* synchronisation with Close.
ShutProjectorStarts ==
    /\ psGo = "spawned"
    /\ psGo' = RangeOver(psSub)
    /\ last' = [op |-> "ProjectorStarts", s |-> "none"]
    /\ UNCHANGED <<psSub, psReg, psOnce, psCl, nUnsub, nChClosed>>
    /\ UNCHANGED <<nonShutVars, catVars, ordVars>>

\* EventBus.Publish of a RateChanged by the rate client: buffered in the
\* projector's queue while it is registered.
ShutPublish(e) ==
    /\ Len(rcLog) < MaxEvents
    /\ rcLog' = Append(rcLog, [w |-> 0, ev |-> e])
    /\ pjQueue' = IF psReg
                  THEN Buffered(pjQueue, Queued(Len(rcLog) + 1, e))
                  ELSE pjQueue
    /\ last' = [op |-> "Publish", s |-> "none"]
    /\ UNCHANGED <<wire, puLog>>
    /\ UNCHANGED <<nonShutVars, catVars, shutVars>>

\* handleRateChanges: the range yields the next buffered event (also from a
\* closed channel, until it is drained).
ShutProjectorTakes == psGo = "ranging" /\ ProjectorTakes

\* handleRateChanges: one PriceUpdate is published.
ShutProjectorEmits ==
    /\ psGo = "ranging"
    /\ projectorEmits(psReg)
    /\ UNCHANGED <<nonShutVars, shutVars>>

\* handleRateChanges: the channel is closed and drained, the range ends and
\* the deferred wg.Done runs.
ShutProjectorEnds ==
    /\ psGo = "ranging"
    /\ ProjectorAtRange
    /\ pjQueue = <<>>
    /\ nChClosed > 0
    /\ psGo' = "done"
    /\ last' = [op |-> "ProjectorEnds", s |-> "none"]
    /\ UNCHANGED <<psSub, psReg, psOnce, psCl, nUnsub, nChClosed>>
    /\ UNCHANGED <<nonShutVars, catVars, ordVars>>

\* Close, first caller: once.Do runs the function; s.rateSubscriber is not
\* nil and EventBus.Unsubscribe deletes the queue from the bus.
ShutCloseUnsubscribe(k) ==
    /\ psCl[k] = "idle"
    /\ psOnce = "idle"
    /\ psOnce' = "running"
    /\ IF psSub # "nil"
       THEN /\ psReg' = FALSE
            /\ nUnsub' = nUnsub + 1
            /\ psCl' = [psCl EXCEPT ![k] = "unsub"]
       ELSE /\ psCl' = [psCl EXCEPT ![k] = "wait"]
            /\ UNCHANGED <<psReg, nUnsub>>
    /\ last' = [op |-> "CloseUnsubscribe", s |-> k]
    /\ UNCHANGED <<psSub, psGo, nChClosed>>
    /\ UNCHANGED <<nonShutVars, catVars, ordVars>>

\* EventBus.Unsubscribe, after the bus lock is released: close(ch).
ShutCloseChannel(k) ==
    /\ psCl[k] = "unsub"
    /\ nChClosed' = nChClosed + 1
    /\ psCl' = [psCl EXCEPT ![k] = "closed"]
    /\ last' = [op |-> "CloseChannel", s |-> k]
    /\ UNCHANGED <<psSub, psReg, psGo, psOnce, nUnsub>>
    /\ UNCHANGED <<nonShutVars, catVars, ordVars>>

\* Close: s.rateSubscriber = nil, then wg.Wait is entered.
ShutCloseNil(k) ==
    /\ psCl[k] = "closed"
    /\ psSub' = "nil"
    /\ psCl' = [psCl EXCEPT ![k] = "wait"]
    /\ last' = [op |-> "CloseNil", s |-> k]
    /\ UNCHANGED <<psReg, psGo, psOnce, nUnsub, nChClosed>>
    /\ UNCHANGED <<nonShutVars, catVars, ordVars>>

\* Close: wg.Wait returns when handleRateChanges has returned; the once is
\* done and Close returns nil.
ShutCloseReturns(k) ==
    /\ psCl[k] = "wait"
    /\ psGo = "done"
    /\ psOnce' = "done"
    /\ psCl' = [psCl EXCEPT ![k] = "returned"]
    /\ last' = [op |-> "CloseReturns", s |-> k]
    /\ UNCHANGED <<psSub, psReg, psGo, nUnsub, nChClosed>>
    /\ UNCHANGED <<nonShutVars, catVars, ordVars>>

\* Close, another caller: once.Do waits while the first call runs.
ShutCloseAgain(k) ==
    /\ psCl[k] = "idle"
    /\ psOnce # "idle"
    /\ psCl' = [psCl EXCEPT ![k] = "once"]
    /\ last' = [op |-> "CloseAgain", s |-> k]
    /\ UNCHANGED <<psSub, psReg, psGo, psOnce, nUnsub, nChClosed>>
    /\ UNCHANGED <<nonShutVars, catVars, ordVars>>

\* Close, another caller: once.Do returns without running the function.
ShutCloseAgainReturns(k) ==
    /\ psCl[k] = "once"
    /\ psOnce = "done"
    /\ psCl' = [psCl EXCEPT ![k] = "returned"]
    /\ last' = [op |-> "CloseAgainReturns", s |-> k]
    /\ UNCHANGED <<psSub, psReg, psGo, psOnce, nUnsub, nChClosed>>
    /\ UNCHANGED <<nonShutVars, catVars, ordVars>>

ShutEvents == {RateChangedEv("USD", 110), RateChangedEv("USD", 120)}

ShutNext ==
    \/ ShutProjectorStarts
    \/ \E e \in ShutEvents : ShutPublish(e)
    \/ ShutProjectorTakes
    \/ ShutProjectorEmits
    \/ ShutProjectorEnds
    \/ \E k \in Closers :
         \/ ShutCloseUnsubscribe(k)
         \/ ShutCloseChannel(k)
         \/ ShutCloseNil(k)
         \/ ShutCloseReturns(k)
         \/ ShutCloseAgain(k)
         \/ ShutCloseAgainReturns(k)

\* The scheduler runs the projector and every caller of Close that can
\* take a step.
ShutFairness ==
    /\ WF_vars(ShutProjectorStarts)
    /\ WF_vars(ShutProjectorTakes)
    /\ WF_vars(ShutProjectorEmits)
    /\ WF_vars(ShutProjectorEnds)
    /\ \A k \in Closers :
         /\ WF_vars(ShutCloseChannel(k))
         /\ WF_vars(ShutCloseNil(k))
         /\ WF_vars(ShutCloseReturns(k))
         /\ WF_vars(ShutCloseAgainReturns(k))

----------------------------------------------------------------------------
(* The rate client and the currency server on one healthy stream           *)

\* Minutes of wall-clock time explored with a connected client.
MaxMinutes == 8

\* The server-side handle of the client's stream.
ClientStream == "s1"

kaRest == <<busVars, storeVars, retVars, callVars, closeVars, catVars,
            svcVars, ordVars, shutVars, pushVars>>

kaServerRest == <<rates, monPc, nTicks, fanPc, fanTodo, fanSnap, fanCur,
                  fanReqs, written, fanWritten>>

kaClientRest == <<cBroken, cSendClosed, cClosed, ruOn, cRates>>

\* NewCurrencyService with a server that answers: initializeStream succeeds,
\* the handler of the stream starts on the server and blocks in Recv, and
\* the two goroutines of the client start (handleHeartbeat creates its
\* timer).
KaConnect ==
    /\ cPc = "new"
    /\ conn[ClientStream] = "idle"
    /\ \E o \in initializeStream(cStream, cMade) :
          /\ o.ok
          /\ cStream' = o.stream
          /\ cMade' = o.made
    /\ cPc' = "running"
    /\ hbPc' = "run"
    /\ ruPc' = "select"
    /\ conn' = [conn EXCEPT ![ClientStream] = "open"]
    /\ hpc' = [hpc EXCEPT ![ClientStream] = "recv"]
    /\ cOut' = <<>>
    /\ sent' = <<>>
    /\ last' = Op("NewCurrencyService")
    /\ UNCHANGED <<cSubs, hbTimer, cSentOn, subs, now, cleanupDue, reaped,
                   heard>>
    /\ UNCHANGED <<kaRest, kaServerRest, kaClientRest>>

\* A minute passes: the cleanup ticker of the server fires, and so does the
\* client's timer if it is running; the heartbeat goroutine has dealt with
\* a timer that fired before the next minute is over.
KaMinute ==
    /\ now < MaxMinutes
    /\ hbTimer # "fired"
    /\ now' = now + 1
    /\ cleanupDue' = TRUE
    /\ hbTimer' = IF cPc = "running" /\ hbTimer = "armed" THEN "fired"
                  ELSE hbTimer
    /\ cOut' = <<>>
    /\ sent' = <<>>
    /\ last' = NoOp
    /\ UNCHANGED <<cPc, cStream, cMade, cSubs, hbPc, ruPc, cSentOn, subs,
                   conn, hpc, reaped, heard>>
    /\ UNCHANGED <<kaRest, kaServerRest, kaClientRest>>

\* handleHeartbeat, case <-ticker.C on a healthy stream: the heartbeat is
\* sent, and the handler on the server receives it: updateClientActivity.
KaHeartbeat ==
    /\ hbPc = "run"
    /\ hbTimer = "fired"
    /\ CanSend(cStream)
    /\ hpc[ClientStream] = "recv"
    /\ hbTimer' = TimerAfterFire
    /\ cOut' = <<HeartbeatRequest>>
    /\ subs' = updateClientActivity(subs, ClientStream, now)
    /\ Hears({ClientStream})
    /\ sent' = <<>>
    /\ last' = Op("HeartbeatSent")
    /\ UNCHANGED <<cPc, cStream, cMade, cSubs, hbPc, ruPc, cSentOn, conn, hpc,
                   now, cleanupDue, reaped>>
    /\ UNCHANGED <<kaRest, kaServerRest, kaClientRest>>

\* SubscribeToRates(ctx, []string{c}) on a healthy stream: a currency in
\* s.subscriptions is skipped; otherwise it is put there, its request is
\* sent, and the handler on the server, for which the request is valid and
\* new, calls addSubscription.
KaSubscribe(c) ==
    /\ cPc = "running"
    /\ CanSend(cStream)
    /\ hpc[ClientStream] = "recv"
    /\ sent' = <<>>
    /\ IF c \in cSubs
       THEN /\ last' = Op("SubscribeSkipped")
            /\ cOut' = <<>>
            /\ UNCHANGED <<cSubs, cSentOn, subs, reaped, heard>>
       ELSE /\ cSubs' = cSubs \cup {c}
            /\ cSentOn' = cSentOn \cup {c}
            /\ cOut' = <<SubscribeRequest(c)>>
            /\ validateRateRequest(Rq("EUR", c)) = ""
            /\ ~subscriptionExists(subs, ClientStream, Rq("EUR", c))
            /\ subs' = addSubscription(subs, ClientStream, Rq("EUR", c), now)
            /\ reaped' = reaped \ {ClientStream}
            /\ Hears({ClientStream})
            /\ last' = Op("SubscribeSent")
    /\ UNCHANGED <<cPc, cStream, cMade, hbTimer, hbPc, ruPc, conn, hpc, now,
                   cleanupDue>>
    /\ UNCHANGED <<kaRest, kaServerRest, kaClientRest>>

\* A client that stays connected and is not shut down, the clock and the
\* reaper.
KeepAliveNext ==
    \/ KaConnect
    \/ KaMinute
    \/ KaHeartbeat
    \/ \E c \in CliCurrencies : KaSubscribe(c)
    \/ Reap

----------------------------------------------------------------------------
(* Push sessions: websocket.Handler.HandleWebSocket                        *)

Sessions == {"A", "B"}

\* The channel Subscribe hands to each session.
Chan(s) == IF s = "A" THEN "h1" ELSE "h2"

\* The types of the values published on the EventBus[any].
Kinds == {"PriceUpdate", "ProductAdded", "ProductUpdated", "ProductDeleted",
          "RateChanged"}

\* The types of the events published, by event number: every run of
\* MaxEvents consecutive types of KindOrder taken cyclically, and the run of
\* PriceUpdates only.
KindOrder == <<"PriceUpdate", "ProductAdded", "ProductUpdated",
               "ProductDeleted", "RateChanged">>

EventScripts ==
    {[e \in 1..MaxEvents |-> KindOrder[((e + r) % Len(KindOrder)) + 1]] :
        r \in 0..(Len(KindOrder) - 1)}
    \cup {[e \in 1..MaxEvents |-> "PriceUpdate"]}

PushInit ==
    /\ evKind = [e \in 1..MaxEvents |-> "PriceUpdate"]
    /\ wsPc = [s \in Sessions |-> "none"]
    /\ wsConn = [s \in Sessions |-> "none"]
    /\ wsHandled = [s \in Sessions |-> 0]
    /\ wsOut = [s \in Sessions |-> <<>>]
    /\ wsFailed = [s \in Sessions |-> FALSE]

\* The default branch of the type switch: no message.
NoTag == "none"

eventTypeNoPrice(k) ==
    CASE k = "ProductAdded" -> "product_added"
      [] k = "ProductUpdated" -> "product_updated"
      [] k = "ProductDeleted" -> "product_deleted"
      [] OTHER -> NoTag

eventTypeTagsAll(k) ==
    CASE k = "PriceUpdate" -> "price_update"
      [] k = "ProductAdded" -> "product_added"
      [] k = "ProductUpdated" -> "product_updated"
      [] k = "ProductDeleted" -> "product_deleted"
      [] OTHER -> "rate_changed"

\* switch e := event.(type): the EventType of the message, NoTag for default.
eventType(k) ==
    CASE k = "PriceUpdate" -> "price_update"
      [] k = "ProductAdded" -> "product_added"
      [] k = "ProductUpdated" -> "product_updated"
      [] k = "ProductDeleted" -> "product_deleted"
      [] OTHER -> NoTag

\* Message{EventType: t, Data: e}; the event is identified by its number and
\* its type.
Message(t, e) == [EventType |-> t, Data |-> <<evKind[e], e>>]

\* The session is inside the for/select loop.
InLoop(s) == wsPc[s] = "open" /\ Chan(s) \in made

\* The session holds an event it received and has not dealt with yet.
Holding(s) == Len(deq[Chan(s)]) > wsHandled[s]

\* h.Upgrader.Upgrade: the connection is established, or the handler returns
\* at once.
Upgrade(s) ==
    /\ wsPc[s] = "none"
    /\ \/ /\ wsPc' = [wsPc EXCEPT ![s] = "open"]
          /\ wsConn' = [wsConn EXCEPT ![s] = "live"]
       \/ /\ wsPc' = [wsPc EXCEPT ![s] = "done"]
          /\ UNCHANGED wsConn
    /\ UNCHANGED <<evKind, wsHandled, wsOut, wsFailed>>
    /\ UNCHANGED <<busVars, nonPushVars>>

\* subscriber := h.EventBus.Subscribe()
SessionSubscribe(s) ==
    /\ wsPc[s] = "open"
    /\ Subscribe(Chan(s))

\* The peer closes the connection or the transport fails: from now on
\* conn.WriteMessage returns an error, and so does the conn.ReadMessage of
\* readPump, whose deferred close(done) makes the done case of the select
\* ready.
PeerCloses(s) ==
    /\ wsConn[s] = "live"
    /\ wsConn' = [wsConn EXCEPT ![s] = "closed"]
    /\ UNCHANGED <<evKind, wsPc, wsHandled, wsOut, wsFailed>>
    /\ UNCHANGED <<busVars, nonPushVars>>

\* readPump has closed the done channel.
DoneClosed(s) == Chan(s) \in made /\ wsConn[s] = "closed"

\* select, case event := <-subscriber
SessionReceive(s) ==
    /\ InLoop(s)
    /\ ~Holding(s)
    /\ buf[Chan(s)] # <<>>
    /\ Receive(Chan(s))

\* The type switch, json.Marshal and conn.WriteMessage for the event received:
\* no message for the default branch, one message on a live connection, and
\* return when the write fails.
SessionHandle(s) ==
    /\ InLoop(s)
    /\ Holding(s)
    /\ LET e == deq[Chan(s)][wsHandled[s] + 1]
           t == eventType(evKind[e])
       IN  /\ wsHandled' = [wsHandled EXCEPT ![s] = @ + 1]
           /\ IF t = NoTag
              THEN UNCHANGED <<wsOut, wsFailed, wsPc>>
              ELSE IF wsConn[s] = "live"
              THEN /\ wsOut' = [wsOut EXCEPT ![s] = Append(@, Message(t, e))]
                   /\ UNCHANGED <<wsFailed, wsPc>>
              ELSE /\ wsFailed' = [wsFailed EXCEPT ![s] = TRUE]
                   /\ wsPc' = [wsPc EXCEPT ![s] = "returning"]
                   /\ UNCHANGED wsOut
    /\ UNCHANGED <<evKind, wsConn>>
    /\ UNCHANGED <<busVars, nonPushVars>>

\* select, case <-done: return
SessionDone(s) ==
    /\ InLoop(s)
    /\ ~Holding(s)
    /\ DoneClosed(s)
    /\ wsPc' = [wsPc EXCEPT ![s] = "returning"]
    /\ UNCHANGED <<evKind, wsConn, wsHandled, wsOut, wsFailed>>
    /\ UNCHANGED <<busVars, nonPushVars>>

\* defer h.EventBus.Unsubscribe(subscriber), in its two halves
SessionUnsubscribeDelete(s) ==
    /\ wsPc[s] = "returning"
    /\ UnsubscribeDelete(Chan(s))

SessionUnsubscribeClose(s) ==
    /\ wsPc[s] = "returning"
    /\ UnsubscribeClose(Chan(s))

\* defer conn.Close(), after the deferred Unsubscribe
SessionConnClose(s) ==
    /\ wsPc[s] = "returning"
    /\ unsubPc[Chan(s)] = "done"
    /\ wsPc' = [wsPc EXCEPT ![s] = "done"]
    /\ wsConn' = [wsConn EXCEPT ![s] = "closed"]
    /\ UNCHANGED <<evKind, wsHandled, wsOut, wsFailed>>
    /\ UNCHANGED <<busVars, nonPushVars>>

PushNext ==
    \/ \E s \in Sessions : Upgrade(s)
    \/ \E s \in Sessions : SessionSubscribe(s)
    \/ \E s \in Sessions : PeerCloses(s)
    \/ \E s \in Sessions : SessionReceive(s)
    \/ \E s \in Sessions : SessionHandle(s)
    \/ \E s \in Sessions : SessionDone(s)
    \/ \E s \in Sessions : SessionUnsubscribeDelete(s)
    \/ \E s \in Sessions : SessionUnsubscribeClose(s)
    \/ \E s \in Sessions : SessionConnClose(s)
    \/ PublishBegin("p1")
    \/ \E h \in Handles : PublishSend("p1", h)
    \/ PublishEnd("p1")

\* The sessions as the delivery of a PriceUpdate exercises them: the second
\* event published is a PriceUpdate, and of the two sessions, which run the
\* same code, it is B whose peer may go away.
LiveScripts == {k \in EventScripts : k[2] = "PriceUpdate"}

PushLiveNext ==
    \/ \E s \in Sessions : Upgrade(s)
    \/ \E s \in Sessions : SessionSubscribe(s)
    \/ PeerCloses("B")
    \/ \E s \in Sessions : SessionReceive(s)
    \/ \E s \in Sessions : SessionHandle(s)
    \/ \E s \in Sessions : SessionDone(s)
    \/ \E s \in Sessions : SessionUnsubscribeDelete(s)
    \/ \E s \in Sessions : SessionUnsubscribeClose(s)
    \/ \E s \in Sessions : SessionConnClose(s)
    \/ PublishBegin("p1")
    \/ \E h \in Handles : PublishSend("p1", h)
    \/ PublishEnd("p1")

\* The goroutine of each session keeps running: a ready case of its select
\* is taken, and the event received is dealt with.
PushFairness ==
    /\ \A s \in Sessions : WF_vars(SessionReceive(s))
    /\ \A s \in Sessions : WF_vars(SessionHandle(s))

----------------------------------------------------------------------------
(* From a monitor tick on the server to the push sessions                  *)

\* The push sessions of the pipeline.
PipeSessions == {"A"}

\* The message in flight on the stream, as Recv hands it to the client.
Received(m) == RateMsg(m.dest, m.rate)

\* The stream delivers in order: the server's next step comes after the
\* message it sent has been received.
Delivered == sent = <<>>

\* A pass of the fan-out loop and what follows from it take far less than
\* a minute: the minute hand moves between them.
Quiescent ==
    /\ Delivered
    /\ monPc = "select"
    /\ fanPc = "idle"
    /\ pjQueue = <<>>
    /\ ProjectorAtRange
    /\ \A s \in PipeSessions : buf[Chan(s)] = <<>> /\ ~Holding(s)

\* The ticks considered are those the property is about: the client has
\* subscribed to USD, the sessions are connected, what the tick before led
\* to is over, and the events the tick leads to are within the events
\* explored.
PipeTick ==
    /\ Quiescent
    /\ "USD" \in cSubs
    /\ \A s \in PipeSessions : InLoop(s)
    /\ (nTicks + 1) * rLen <= MaxEvents
    /\ MonitorTick(Factors)

\* handleRateUpdates, Recv returns the RateResponse in flight: the cache is
\* updated and a RateChanged, if the rate is news, is published on the bus,
\* where the projector's queue has room for it.
PipeDeliver ==
    /\ sent # <<>>
    /\ rateUpdatesMessage(Received(sent[1]))
    /\ sent' = <<>>
    /\ wire' = Append(wire, Received(sent[1]))
    /\ IF cOut' # <<>>
       THEN /\ Len(pjQueue) < QueueCap
            /\ rcLog' = Append(rcLog, [w |-> Len(wire) + 1, ev |-> cOut'[1]])
            /\ pjQueue' = Buffered(pjQueue,
                                   Queued(Len(rcLog) + 1,
                                          RateChangedEv(sent[1].dest,
                                                        sent[1].rate)))
       ELSE UNCHANGED <<rcLog, pjQueue>>
    /\ UNCHANGED puLog
    /\ UNCHANGED <<rates, monPc, nTicks, subs, conn, hpc, fanPc, fanTodo,
                   fanSnap, fanCur, fanReqs, now, cleanupDue, written,
                   fanWritten, reaped>>
    /\ UNCHANGED <<busVars, storeVars, hearVars, retVars, catVars, svcVars,
                   shutVars, pushVars>>

\* handleRateChanges publishes one PriceUpdate: Publish puts it in the queue
\* of every subscriber, each of which has room for it.
PipeEmit ==
    /\ nPub < MaxEvents
    /\ \A h \in subscribers : Len(buf[h]) < QueueCap
    /\ projectorEmits(TRUE)
    /\ nPub' = nPub + 1
    /\ buf' = [h \in Handles |->
                  IF h \in subscribers
                  THEN ChanSend(buf[h], closed[h], nPub + 1).q
                  ELSE buf[h]]
    /\ pubBy' = Append(pubBy, "p1")
    /\ regAt' = Append(regAt, subscribers)
    /\ UNCHANGED <<subscribers, made, closed, rlock, pubPc, pubEv, pubTodo,
                   unsubPc, panicked, fullAt, deq, eos>>
    /\ UNCHANGED <<srvVars, storeVars, hearVars, retVars, cliVars, cacheVars,
                   callVars, closeVars, svcVars, shutVars, pushVars>>

\* The steps of the server and of the client's callers, each after the
\* message in flight has been received; the client and the sessions
\* connect in the first minute.
PipeConnect == now = 0 /\ Delivered /\ KaConnect
PipeUpgrade == \E s \in PipeSessions : now = 0 /\ Upgrade(s)
PipeSessionSubscribe == \E s \in PipeSessions : now = 0 /\ SessionSubscribe(s)
PipeSubscribe == Delivered /\ KaSubscribe("USD")
PipeMinute == Quiescent /\ KaMinute
PipeHeartbeat == Delivered /\ KaHeartbeat
PipeReap == Delivered /\ Reap
PipeFanOutReceive == Delivered /\ FanOutReceive
PipeFanOutNextStream == \E s \in Streams : Delivered /\ FanOutNextStream(s)
PipeFanOutSend == Delivered /\ FanOutSend

PipelineNext ==
    \/ PipeConnect
    \/ PipeSubscribe
    \/ PipeMinute
    \/ PipeHeartbeat
    \/ PipeReap
    \/ PipeTick
    \/ PipeFanOutReceive
    \/ PipeFanOutNextStream
    \/ PipeFanOutSend
    \/ RateUpdatesDefault
    \/ RateUpdatesRecv
    \/ PipeDeliver
    \/ ProjectorTakes
    \/ PipeEmit
    \/ PipeUpgrade
    \/ PipeSessionSubscribe
    \/ \E s \in PipeSessions : SessionReceive(s)
    \/ \E s \in PipeSessions : SessionHandle(s)

\* Every goroutine that can take a step is scheduled; ticks and minutes
\* come when they come.
PipelineFairness ==
    /\ WF_vars(PipeHeartbeat)
    /\ WF_vars(PipeReap)
    /\ WF_vars(PipeFanOutReceive)
    /\ WF_vars(PipeFanOutNextStream)
    /\ WF_vars(PipeFanOutSend)
    /\ WF_vars(RateUpdatesDefault)
    /\ WF_vars(RateUpdatesRecv)
    /\ WF_vars(PipeDeliver)
    /\ WF_vars(ProjectorTakes)
    /\ WF_vars(PipeEmit)
    /\ \A s \in PipeSessions : WF_vars(SessionReceive(s))
    /\ \A s \in PipeSessions : WF_vars(SessionHandle(s))

----------------------------------------------------------------------------
(* Specifications                                                          *)

InitAll ==
    /\ BusInit
    /\ SrvInit
    /\ StoreInit
    /\ CliInit
    /\ CallInit
    /\ CloseInit
    /\ CatInit
    /\ SvcInit
    /\ OrdInit
    /\ ShutInit
    /\ PushInit
    /\ last = [op |-> "init", s |-> "none"]

\* The event bus alone.
SpecBus == InitAll /\ [][BusNext]_vars

SpecFanOut == InitAll /\ [][FanOutNext]_vars

SpecHandler == InitAll /\ [][HandlerNext]_vars

SpecReaper == InitAll /\ [][ReaperNext]_vars

SpecActivity == InitAll /\ [][ActivityNext]_vars


\* The rate client alone.
SpecClient == InitAll /\ [][ClientNext]_vars

\* The rate client with its goroutines scheduled fairly and time passing.
SpecClientFair == SpecClient /\ ClientFairness

\* The rate client's cache and calls.
SpecRates == InitAll /\ [][RatesNext]_vars

\* Shutdown of the rate client.
SpecClose == InitAll /\ [][CloseNext]_vars

\* Shutdown with the goroutines and the callers of Close scheduled fairly.
SpecCloseFair == SpecClose /\ CloseFairness

\* The product repository.
SpecRepo == InitAll /\ [][RepoNext]_vars

\* The product repository and the price projector.
SpecCatalog == InitAll /\ [][CatalogNext]_vars

\* The rate stream, the bus and the price projector.
SpecOrder == InitAll /\ [][OrderNext]_vars

SpecKeepAlive == InitAll /\ [][KeepAliveNext]_vars

SpecPipeline == InitAll /\ [][PipelineNext]_vars

SpecPipelineFair == SpecPipeline /\ PipelineFairness

SpecShutdown == InitAll /\ [][ShutNext]_vars

SpecShutdownFair == SpecShutdown /\ ShutFairness

\* The product service on the repository: mutations and priced reads.
SpecService == InitAll /\ [][ServiceNext]_vars

\* The state before any session connects; the events published are of the
\* types one of the scripts lists.
PushInitWith(scripts) ==
    /\ BusInit
    /\ SrvInit
    /\ StoreInit
    /\ CliInit
    /\ CallInit
    /\ CloseInit
    /\ CatInit
    /\ SvcInit
    /\ OrdInit
    /\ ShutInit
    /\ evKind \in scripts
    /\ wsPc = [s \in Sessions |-> "none"]
    /\ wsConn = [s \in Sessions |-> "none"]
    /\ wsHandled = [s \in Sessions |-> 0]
    /\ wsOut = [s \in Sessions |-> <<>>]
    /\ wsFailed = [s \in Sessions |-> FALSE]
    /\ last = [op |-> "init", s |-> "none"]

\* The push sessions on the event bus.
SpecPush == PushInitWith(EventScripts) /\ [][PushNext]_vars

\* The push sessions with their goroutines and the publisher scheduled fairly.
SpecPushFair ==
    PushInitWith(LiveScripts) /\ [][PushLiveNext]_vars /\ PushFairness

\* The state after NewRates has loaded one of the feeds.
StoreInitAll ==
    /\ BusInit
    /\ \E feed \in Feeds : SrvInitWith(getRates(feed))
    /\ StoreInit
    /\ CliInit
    /\ CallInit
    /\ CloseInit
    /\ CatInit
    /\ SvcInit
    /\ OrdInit
    /\ ShutInit
    /\ PushInit
    /\ last = [op |-> "init", s |-> "none"]

\* The rate store: monitor, unary GetRate, Close.
SpecStore == StoreInitAll /\ [][StoreNext]_vars

SpecStoreFair == SpecStore /\ StoreFairness

----------------------------------------------------------------------------
(* Claims about the event bus, checked under SpecBus                       *)

\* The events h has been handed so far, received or still buffered, in order.
Got(h) == deq[h] \o buf[h]

\* The send of event e to h is still to come in a Publish in progress.
SendPending(e, h) ==
    \E p \in Publishers : pubPc[p] = "loop" /\ pubEv[p] = e /\ h \in pubTodo[p]

\* C1: Publish(e) appends e to the queue of every registered subscriber
\* holding fewer than QueueCap events, leaves the queue of a subscriber
\* already holding QueueCap events unchanged (and touches no other queue), no
\* queue ever holds more than QueueCap events, Publish reaches every
\* subscriber registered when it began, and it can always take its next step
\* whatever the consumers do.
C1_PublishStep ==
    \A p \in Publishers, h \in Handles :
        PublishSend(p, h) =>
            /\ h \in subscribers
            /\ buf'[h] = IF Len(buf[h]) < QueueCap
                         THEN Append(buf[h], pubEv[p])
                         ELSE buf[h]
            /\ \A g \in Handles \ {h} : buf'[g] = buf[g]
            /\ ~panicked'

C1_PublishWhole ==
    \A p \in Publishers :
        PublishEnd(p) =>
            \A h \in regAt[pubEv[p]] :
                pubEv[p] \in Range(Got(h)) \/ pubEv[p] \in fullAt[h]

C1_State ==
    /\ \A h \in Handles : Len(buf[h]) <= QueueCap
    /\ \A p \in Publishers :
          pubPc[p] = "loop" =>
              ENABLED (PublishEnd(p) \/ \E h \in Handles : PublishSend(p, h))

C1_PublishDeliversOrDrops ==
    [][C1_PublishStep /\ C1_PublishWhole]_vars /\ []C1_State

\* Witness of C1: one Publish was dropped for a full subscriber and delivered
\* to another one.
C1_Witness ==
    \E h, g \in Handles, e \in 1..nPub :
        /\ h # g
        /\ e \in fullAt[h]
        /\ Len(buf[h]) = QueueCap
        /\ e \in Range(buf[g])
        /\ ~SendPending(e, h) /\ ~SendPending(e, g)

\* C9: under every interleaving of Publish and Unsubscribe(h), no event is
\* sent on a closed queue; once Unsubscribe(h) has returned nothing is
\* enqueued into h any more; the consumer of h still receives what is
\* buffered, oldest first, and observes end-of-stream only when h is closed
\* and empty, having received every event that was enqueued into h.
C9_Step ==
    \A h \in Handles :
        /\ unsubPc[h] = "done" =>
               \/ buf'[h] = buf[h]
               \/ buf[h] # <<>> /\ buf'[h] = Tail(buf[h])
        /\ (Receive(h) /\ buf[h] # <<>>) =>
               /\ deq'[h] = Append(deq[h], Head(buf[h]))
               /\ ~eos'[h]

C9_State ==
    /\ ~panicked
    /\ \A h \in Handles :
          /\ unsubPc[h] = "done" => closed[h] /\ h \notin subscribers
          /\ eos[h] =>
                /\ closed[h]
                /\ buf[h] = <<>>
                /\ \A e \in 1..nPub :
                      (h \in regAt[e] /\ e \notin fullAt[h]) => e \in Range(deq[h])

C9_NoSendOnClosedQueue == [][C9_Step]_vars /\ []C9_State

\* Witness of C9: a consumer drained events out of a closed queue up to
\* end-of-stream, and a Publish that began after the Unsubscribe did not
\* reach the queue.
C9_Witness ==
    \E h \in Handles :
        /\ eos[h]
        /\ deq[h] # <<>>
        /\ \E e \in 1..nPub :
              /\ h \notin regAt[e]
              /\ \A i \in DOMAIN deq[h] : deq[h][i] < e

\* C10: for each subscriber, what it dequeues (and what is still buffered
\* for it) holds no event twice, holds the events of each publisher task in
\* the order that task called Publish, holds only events published while it
\* was registered, and misses such an event only if its queue was full when
\* the event was sent to it.
C10_PerSubscriberOrder ==
    \A h \in Handles :
        /\ NoDup(Got(h))
        /\ \A p \in Publishers :
              Increasing(Filter(Got(h), {e \in 1..nPub : pubBy[e] = p}))
        /\ \A e \in Range(Got(h)) : e \in 1..nPub /\ h \in regAt[e]
        /\ \A e \in 1..nPub :
              (h \in regAt[e] /\ ~SendPending(e, h) /\ e \notin Range(Got(h)))
                  => e \in fullAt[h]

\* Witness of C10: a subscriber has dequeued two events and missed a third
\* one that found its queue full.
C10_Witness ==
    \E h \in Handles :
        /\ Len(deq[h]) >= 2
        /\ fullAt[h] # {}
        /\ \E e \in fullAt[h] : e \notin Range(Got(h))

----------------------------------------------------------------------------
(* Claims about the currency server                                        *)

\* The rate messages the step just taken put on the wire.
RatesSent == {i \in DOMAIN sent : sent[i].kind = "rate"}

\* C2 (checked under SpecFanOut): every RateResponse for (EUR, x) sent by a
\* fan-out pass carries table[x] as written by the monitor tick whose
\* notification started that pass, not a value written by a later tick.
C2_FanOutCarriesTickRate ==
    \A i \in RatesSent :
        sent[i].base = "EUR" => sent[i].rate = fanWritten[sent[i].dest]

\* C3 (checked under SpecReaper): a run of the reaper removes exactly the
\* subscriptions whose lastActivity is more than StaleAfter minutes old and
\* leaves the others as they are; no RateResponse is sent on a stream whose
\* subscription was reaped, until the stream registers a request again.
C3_Step ==
    Reap =>
        /\ DOMAIN subs' =
              {s \in DOMAIN subs : now - subs[s].lastActivity <= StaleAfter}
        /\ \A s \in DOMAIN subs' : subs'[s] = subs[s]

C3_State == \A i \in RatesSent : sent[i].to \notin reaped

C3_ReaperEvictsStale == [][C3_Step]_vars /\ []C3_State

\* Witness of C3: a stream was reaped, is still open and has not registered
\* again, and a later fan-out pass sends a RateResponse (to another stream).
C3_Witness ==
    /\ last.op = "FanOutSend"
    /\ RatesSent # {}
    /\ \E s \in reaped : conn[s] = "open" /\ hpc[s] = "recv"

\* A request is in the list registered for stream s.
InList(reg, s, rr) == s \in DOMAIN reg /\ rr \in Range(reg[s].rateRequests)

Count(q, x) == Cardinality({i \in DOMAIN q : q[i] = x})

Malformed(rr) ==
    /\ ~(rr.base = "UNKNOWN" /\ rr.dest = "UNKNOWN")
    /\ (rr.base = "UNKNOWN" \/ rr.dest = "UNKNOWN" \/ rr.base = rr.dest)

\* The handler of s returned Internal after a failed Send: nothing was sent
\* and the subscription of s is gone.
SendFailedOutcome(s) ==
    /\ sent' = <<>>
    /\ subs' = [x \in DOMAIN subs \ {s} |-> subs[x]]
    /\ hpc'[s] = "done"

Receiving(s) == hpc[s] = "recv" /\ conn[s] = "open"

\* C6 as stated: the second request for a pair already registered on the
\* stream leaves the pair registered exactly once and makes the server send
\* exactly one ErrorStatus(InvalidArgument) on the stream.
C6_Original ==
    [][\A s \in Streams, rr \in Inputs :
          (InList(subs, s, rr) /\ HandleDuplicate(s, rr)) =>
              /\ s \in DOMAIN subs'
              /\ Count(subs'[s].rateRequests, rr) = 1
              /\ sent' = <<ErrorStatus(s, rr)>>]_vars

\* C6 (amended, checked under SpecHandler): a valid pair is registered by the
\* first request for it, without any reply; a request for a pair already in
\* the stream's list is never registered again, so no list ever holds a pair
\* twice; it is answered by exactly one ErrorStatus(InvalidArgument) on the
\* stream with the registry unchanged or, if that Send fails, by nothing:
\* the subscription is removed and the handler returns Internal.
C6_Step ==
    \A s \in Streams, rr \in Inputs :
        /\ HandleSubscribe(s, rr) =>
              /\ ~InList(subs, s, rr)
              /\ Count(subs'[s].rateRequests, rr) = 1
              /\ sent' = <<>>
        /\ InList(subs, s, rr) =>
              /\ ~HandleSubscribe(s, rr)
              /\ HandleDuplicate(s, rr) =>
                    \/ /\ sent' = <<ErrorStatus(s, rr)>>
                       /\ subs' = subs
                       /\ hpc'[s] = "recv"
                    \/ SendFailedOutcome(s)

C6_State ==
    \A s \in Streams :
        /\ s \in DOMAIN subs => NoDup(subs[s].rateRequests)
        /\ \A rr \in Inputs :
              (Receiving(s) /\ InList(subs, s, rr)) =>
                  ENABLED HandleDuplicate(s, rr)

C6_DuplicateRejected == [][C6_Step]_vars /\ []C6_State

\* Witness of C6: the reply to a duplicate request has just been sent, and
\* the pair is still registered.
C6_Witness ==
    /\ last.op = "HandleDuplicate"
    /\ Len(sent) = 1
    /\ InList(subs, last.s, Rq(sent[1].base, sent[1].dest))
    /\ Count(subs[last.s].rateRequests, Rq(sent[1].base, sent[1].dest)) = 1

\* C7 as stated: a malformed request makes the server send exactly one
\* ErrorStatus(InvalidArgument) on the stream, leaves the registry unchanged
\* and leaves the handler running.
C7_Original ==
    [][\A s \in Streams, rr \in Inputs :
          (Malformed(rr) /\ HandleInvalid(s, rr)) =>
              /\ sent' = <<ErrorStatus(s, rr)>>
              /\ subs' = subs
              /\ hpc'[s] = "recv"]_vars

\* C7 (amended, checked under SpecHandler): a malformed request is never
\* registered; it is answered by exactly one ErrorStatus(InvalidArgument) on
\* the same stream, with the registry unchanged and the handler still
\* receiving (a later valid request is registered) or, if that Send fails,
\* by nothing: the stream's subscription is removed and the handler returns
\* Internal.
C7_Step ==
    \A s \in Streams, rr \in Inputs :
        /\ Malformed(rr) =>
              /\ ~HandleSubscribe(s, rr)
              /\ ~HandleDuplicate(s, rr)
              /\ HandleInvalid(s, rr) =>
                    \/ /\ sent' = <<ErrorStatus(s, rr)>>
                       /\ subs' = subs
                       /\ Receiving(s)'
                    \/ SendFailedOutcome(s)
        /\ HandleSubscribe(s, rr) => InList(subs', s, rr)

C7_State ==
    /\ \A s \in DOMAIN subs :
          \A i \in DOMAIN subs[s].rateRequests :
              ~Malformed(subs[s].rateRequests[i])
    /\ \A s \in Streams, rr \in Inputs :
          Receiving(s) =>
              /\ Malformed(rr) => ENABLED HandleInvalid(s, rr)
              /\ (~Malformed(rr) /\ ~isHeartbeat(rr) /\ ~InList(subs, s, rr))
                    => ENABLED HandleSubscribe(s, rr)

C7_InvalidRejected == [][C7_Step]_vars /\ []C7_State

\* Witness of C7: the reply to a malformed request has just been sent on a
\* stream that holds a subscription, and the handler is still receiving.
C7_Witness ==
    /\ last.op = "HandleInvalid"
    /\ Len(sent) = 1
    /\ sent[1].kind = "error"
    /\ last.s \in DOMAIN subs
    /\ Receiving(last.s)

\* C8 (checked under SpecReaper): a heartbeat puts nothing on the wire,
\* creates no registry entry, removes none and changes no request list; it
\* changes nothing but the lastActivity of the entry of its own stream, if
\* there is one, which becomes the current time.
C8_Step ==
    \A s \in Streams :
        HandleHeartbeat(s, Rq("UNKNOWN", "UNKNOWN")) =>
            /\ sent' = <<>>
            /\ DOMAIN subs' = DOMAIN subs
            /\ \A t \in DOMAIN subs :
                  /\ subs'[t].rateRequests = subs[t].rateRequests
                  /\ t # s => subs'[t] = subs[t]
            /\ s \in DOMAIN subs => subs'[s].lastActivity = now
            /\ UNCHANGED <<conn, hpc, rates, reaped>>

C8_State ==
    \A s \in Streams :
        Receiving(s) => ENABLED HandleHeartbeat(s, Rq("UNKNOWN", "UNKNOWN"))

C8_HeartbeatOnlyRefreshes == [][C8_Step]_vars /\ []C8_State

\* Witness of C8: a heartbeat has just refreshed an entry registered at an
\* earlier time.
C8_Witness ==
    /\ last.op = "HandleHeartbeat"
    /\ last.s \in DOMAIN subs
    /\ subs[last.s].lastActivity = now
    /\ now > 0
    /\ sent = <<>>


MessageOps ==
    {"HandleHeartbeat", "HandleInvalid", "HandleDuplicate", "HandleSubscribe"}

C25_Step ==
    \A s \in DOMAIN subs :
        /\ (last'.op = "Reap" /\ s \notin DOMAIN subs') =>
              now - heard[s] > StaleAfter
        /\ (last'.op \in MessageOps /\ last'.s = s) =>
              /\ s \in DOMAIN subs'
              /\ subs'[s].lastActivity = now

\* C25: the reaper removes a subscription only if the handler of its stream
\* has received no message of any kind (heartbeat, valid, invalid or
\* duplicate request) during the preceding five minutes: every message
\* received on a stream that holds a subscription sets the subscription's
\* lastActivity to the current time.
C25_ReapedOnlyIfSilent == [][C25_Step]_vars

\* C27: every request in the registry has a base and a destination other
\* than UNKNOWN and different from each other, no stream's list holds the
\* same pair twice, and every entry of the registry holds at least one
\* request.
C27_RegistryWellFormed ==
    \A s \in DOMAIN subs :
        LET q == subs[s].rateRequests IN
        /\ Len(q) >= 1
        /\ \A i \in DOMAIN q :
              /\ q[i].base # "UNKNOWN"
              /\ q[i].dest # "UNKNOWN"
              /\ q[i].base # q[i].dest
        /\ \A i, j \in DOMAIN q :
              (q[i].base = q[j].base /\ q[i].dest = q[j].dest) => i = j

\* Witness of C27: a stream that holds two pairs has just had a duplicate
\* rejected, and the other stream holds a subscription as well.
C27_Witness ==
    /\ last.op = "HandleDuplicate"
    /\ last.s \in DOMAIN subs
    /\ Len(subs[last.s].rateRequests) = 2
    /\ DOMAIN subs = Streams

C31_Step ==
    /\ (last'.op = "FanOutSendFailed") =>
          /\ sent' = <<>>
          /\ DOMAIN subs' = DOMAIN subs \ {fanCur}
          /\ \A t \in DOMAIN subs' : subs'[t] = subs[t]
          /\ fanCur' = "none"
          /\ fanTodo' = fanTodo
          /\ fanPc' = IF fanTodo = {} THEN "idle" ELSE "streams"
    /\ (last'.op = "FanOutSkip") =>
          /\ sent' = <<>>
          /\ subs' = subs
          /\ fanTodo' = fanTodo
          /\ IF Len(fanReqs) > 1
             THEN /\ fanPc' = "sending"
                  /\ fanCur' = fanCur
                  /\ fanReqs' = Tail(fanReqs)
             ELSE /\ fanCur' = "none"
                  /\ fanPc' = IF fanTodo = {} THEN "idle" ELSE "streams"
    /\ \A i \in DOMAIN sent' :
          sent'[i].kind = "rate" =>
              /\ sent'[i].to = fanCur
              /\ fanCur \notin fanTodo
              /\ last'.op = "FanOutSend"
    /\ (fanCur' # fanCur /\ fanCur' # "none") =>
          /\ fanCur' \in fanTodo
          /\ fanTodo' = fanTodo \ {fanCur'}
    /\ ~(fanTodo' \subseteq fanTodo) => nRecv' = nRecv + 1

C31_State ==
    /\ (fanPc = "sending") =>
          /\ fanReqs # <<>>
          /\ fanCur \notin fanTodo
          /\ ENABLED (FanOutSend \/ FanOutSkip \/ FanOutSendFailed)
    /\ (fanPc = "streams") =>
          /\ fanTodo # {}
          /\ \A s \in fanTodo : ENABLED FanOutNextStream(s)

\* C31: in a fan-out pass a failed Send removes the subscription of that
\* stream and of no other, nothing more is sent on that stream in the pass
\* (a stream is served once per pass and the loop leaves it at the failure)
\* and the pass goes on with the streams that remain; a failed rate lookup
\* sends nothing for that request, leaves the registry as it is and goes on
\* with the next request of the same stream.
C31_FanOutFailures == [][C31_Step]_vars /\ []C31_State

\* Witness of C31: a Send has just failed on one stream while another
\* stream of the same pass is still to be served.
C31_Witness ==
    /\ last.op = "FanOutSendFailed"
    /\ last.s \notin DOMAIN subs
    /\ fanPc = "streams"
    /\ fanTodo # {}

HandlerEnded(s) == hpc[s] \in {"returning", "done"}

C32_Step ==
    \A s \in Streams :
        (hpc[s] = "recv" /\ hpc'[s] # "recv") =>
            /\ s \notin DOMAIN subs'
            /\ \A t \in DOMAIN subs \ {s} :
                  t \in DOMAIN subs' /\ subs'[t] = subs[t]
            /\ hret'[s] = IF conn[s] = "halfclosed" THEN "nil" ELSE "Internal"

C32_State ==
    \A s \in Streams :
        /\ HandlerEnded(s) => (s \notin DOMAIN subs /\ hret[s] # "none")
        /\ (hpc[s] = "recv" /\ conn[s] \in {"halfclosed", "broken"}) =>
              ENABLED HandleRecvEnd(s)
        /\ (hpc[s] = "returning") => ENABLED HandlerReturn(s)

\* C32: when Recv returns end-of-stream the handler removes the
\* subscription of its stream and returns nil; when Recv returns another
\* error (or a Send of the handler fails) it removes the subscription and
\* returns Internal; from the removal on, and after the handler has
\* returned, the registry never holds that stream.
C32_HandlerEnds == [][C32_Step]_vars /\ []C32_State

\* Witness of C32: one handler has returned nil after end-of-stream and the
\* handler of the other stream has just removed its subscription after a
\* receive error.
C32_Witness ==
    /\ last.op = "HandleRecvError"
    /\ hret[last.s] = "Internal"
    /\ \E t \in Streams : hpc[t] = "done" /\ hret[t] = "nil"
    /\ subs = <<>>

\* The fan-out loop is about to evaluate sub.rateRequests of stream s
\* (currency.go l.57) on the record the registry holds: the read lock was
\* released when getSubscriptionsCopy returned, and none is taken here.
UnlockedRead(s) ==
    /\ fanPc = "streams"
    /\ s \in fanTodo
    /\ fanSnap[s].live
    /\ s \in DOMAIN subs

\* The handler of s is about to append to the record of s under the write
\* lock (addSubscription, l.123-124).
LockedWrite(s) == \E rr \in SubscribeInputs : ENABLED HandleSubscribe(s, rr)

\* C36: the registry's lock serialises every read of a subscription record
\* by the fan-out loop with the handler's writes: a read by the fan-out and
\* a write by a handler of the same record are never possible together.
C36_FanOutReadsSerialised ==
    \A s \in Streams : ~(UnlockedRead(s) /\ LockedWrite(s))

\* C37: a rate client that stays connected on a healthy stream, holds a
\* subscription and is not shut down keeps its subscription on the server:
\* its lastActivity is never more than five minutes old and the reaper never
\* removes it.
C37_ConnectedClientKeptAlive ==
    (cPc = "running" /\ cSubs # {})
        => /\ ClientStream \in DOMAIN subs
           /\ now - subs[ClientStream].lastActivity <= StaleAfter
           /\ ClientStream \notin reaped

\* C39: once the handler of a stream has seen end-of-stream or a receive
\* error and removed the subscription, the fan-out loop sends no
\* RateResponse on the stream any more, also in the pass that was running.
C39_NoSendAfterHandlerRemoval ==
    [][\A i \in DOMAIN sent' :
          sent'[i].kind = "rate" => ~HandlerEnded(sent'[i].to)]_vars

----------------------------------------------------------------------------
(* Claims about the rate store and the unary GetRate                       *)

\* C23: in every state of the rate store after NewRates, across the monitor's
\* ticks, the table holds EUR at exactly 1.0 and every entry is strictly
\* positive.
C23_EurOneRatesPositive ==
    /\ "EUR" \in DOMAIN rates
    /\ rates["EUR"] = One
    /\ \A k \in DOMAIN rates : rates[k] > 0

\* Witness of C23: two ticks have run over a table whose USD rate is the
\* smallest positive value.
C23_Witness == nTicks >= 2 /\ rates["USD"] = 1

\* The reply the unary GetRate owes for rr on the table.
C24_Reply(rr, table) ==
    IF rr.base = "UNKNOWN" \/ rr.dest = "UNKNOWN" \/ rr.base = rr.dest
    THEN [code |-> "InvalidArgument", rate |-> 0]
    ELSE IF rr.base \notin DOMAIN table \/ rr.dest \notin DOMAIN table
    THEN [code |-> "NotFound", rate |-> 0]
    ELSE [code |-> "OK", rate |-> (table[rr.dest] * One) \div table[rr.base]]

C24_Step ==
    (last'.op \in {"GetRate", "GetRateEnd"} /\ grOut'.code # "none") =>
        /\ rates' = rates
        /\ grOut' = C24_Reply(grReq', rates)

\* C24: the unary GetRate answers InvalidArgument exactly when base or dest
\* is UNKNOWN or they are equal, otherwise NotFound exactly when a code is
\* not in the table, otherwise table[dest] / table[base] with both entries
\* of one version of the table: the table as it is when the call returns.
C24_GetRateReplies == [][C24_Step]_vars

\* Witness of C24: a GetRate with a base other than EUR has been answered
\* after a tick changed the base's rate.
C24_Witness ==
    /\ last.op = "GetRateEnd"
    /\ grOut.code = "OK"
    /\ grReq.base = "USD"
    /\ nTicks >= 1
    /\ rates["USD"] # 110

C28_Step == (nTicks' # nTicks) => (nTicks' = nTicks + 1 /\ nRecv = nTicks)

C28_State ==
    /\ nTicks - nRecv \in {0, 1}
    /\ (monPc = "notify") <=> (nTicks = nRecv + 1)

\* C28: the monitor changes the table only when the fan-out loop has
\* received the notification of every earlier change: the changes of the
\* table are never more than one ahead of the notifications received, and
\* between two changes the fan-out loop has started a pass.
C28_MutationsAwaitFanOut == [][C28_Step]_vars /\ []C28_State

\* Witness of C28: the monitor is blocked with its second notification while
\* the fan-out loop is still sending for the first.
C28_Witness ==
    /\ nTicks = 2
    /\ nRecv = 1
    /\ monPc = "notify"
    /\ fanPc = "sending"

\* C29: after Close has closed closeCh, the monitor eventually returns and
\* Close returns, whatever the monitor was doing, also while it is blocked
\* in the send of a notification nobody receives.
C29_StoreCloseReturns == stClosed ~> (monPc = "done" /\ stClosePc = "returned")

----------------------------------------------------------------------------
(* Claims about the rate client                                            *)

\* The outcomes of a round of the heartbeat task.
HeartbeatRounds == {"HeartbeatSent", "HeartbeatFailed", "HeartbeatNoStream"}

\* C4 (checked under SpecClientFair): as long as the client is not shut
\* down, the heartbeat task always eventually runs another round, in which
\* it sends a heartbeat or, failing that, reinitialises the stream.
C4_HeartbeatEveryMinute == []<>(cClosed \/ last.op \in HeartbeatRounds)

\* C5 (checked under SpecClient): when the client replaces its stream by a
\* new one, every currency in s.subscriptions has had its (EUR, c) request
\* sent on the new stream.
C5_ReinitRestoresSubscriptions ==
    [][(cStream # 0 /\ cStream' # cStream) => cSubs' \subseteq cSentOn']_vars


----------------------------------------------------------------------------
(* Claims about the rate client's cache and calls                          *)

\* The RateChanged events among the outputs of the step just taken.
Published(out) == {i \in DOMAIN out : out[i].kind = "RateChanged"}

\* C11 (checked under SpecRates): when the receiver handles a RateResponse
\* for currency c with rate r, the cache maps c to r afterwards and keeps its
\* other entries; RateChanged{c, r} is published exactly once if c had no
\* entry or its entry differed from r, and nothing is published if the entry
\* already equalled r.
C11_Step ==
    \A c \in CliCurrencies, r \in RateVals :
        RateUpdatesMessage(RateMsg(c, r)) =>
            /\ cRates'[c] = r
            /\ \A d \in CliCurrencies \ {c} : cRates'[d] = cRates[d]
            /\ IF cRates[c] = r
               THEN Published(cOut') = {}
               ELSE /\ Cardinality(Published(cOut')) = 1
                    /\ \A i \in Published(cOut') :
                          cOut'[i] = RateChanged(c, r)

C11_CacheFollowsStream == [][C11_Step]_vars

\* Witness of C11: the receiver replaced a cached rate by a different one and
\* published the event (a GetRate call had cached the other rate).
C11_Witness ==
    /\ last.op = "RateUpdatesMessage"
    /\ Len(cOut) = 1
    /\ cOut[1].kind = "RateChanged"
    /\ cRates[cOut[1].cur] = cOut[1].rate
    /\ \E k \in Callers : kRate[k] # 0 /\ kCur[k] = cOut[1].cur
                            /\ kRate[k] # cOut[1].rate

\* C12 (checked under SpecRates): whatever the interleaving of the calls of
\* GetRate and SubscribeToRates, the request (EUR, c) is sent on a stream at
\* most once for each currency c.
C12_RequestSentAtMostOnce == \A c \in CliCurrencies : cReqCount[c] <= 1

\* Witness of C12: a call found the currency marked by the call that sent the
\* request, having waited for the mutex.
C12_Witness ==
    /\ last.op = "SubscribeSkipped"
    /\ cReqCount[kCur[last.s]] = 1

\* C13 (checked under SpecRates): a GetRate call that finds the currency in
\* the cache returns the cached rate and issues no RPC; a call that misses
\* issues the unary GetRate; when that fails the call returns the error and
\* the cache and s.subscriptions stay as they are; when it succeeds the rate
\* is stored in the cache, SubscribeToRates is entered for the currency, and
\* the call returns that rate however SubscribeToRates ends.
C13_Step ==
    \A k \in Callers :
        /\ \A c \in CallCurrencies :
              GetRateCall(k, c) =>
                  /\ UNCHANGED <<cRates, cSubs>>
                  /\ IF cRates[c] # 0
                     THEN cOut' = <<Returned(c, cRates[c])>> /\ kPc'[k] = "idle"
                     ELSE cOut' = <<UnaryGetRate(c)>> /\ kPc'[k] = "unary"
        /\ GetRateReply(k) =>
              \/ /\ cOut' = <<ReturnedError(kCur[k])>>
                 /\ kPc'[k] = "idle"
                 /\ UNCHANGED <<cRates, cSubs>>
              \/ /\ cRates'[kCur[k]] \in RateVals
                 /\ kRate'[k] = cRates'[kCur[k]]
                 /\ kPc'[k] = "enter"
                 /\ kCur'[k] = kCur[k]
        /\ (kRate[k] # 0 /\ kPc[k] \in {"enter", "locked"} /\ kPc'[k] = "idle")
              => cOut'[Len(cOut')] = Returned(kCur[k], kRate[k])
        /\ (kRate[k] # 0 /\ kPc[k] \in {"enter", "lock", "locked"})
              => kRate'[k] = kRate[k] /\ kCur'[k] = kCur[k]

C13_State ==
    \A i \in DOMAIN cOut :
        cOut[i].kind = "GetRate" => last.op = "GetRateMiss"

C13_GetRateCacheThenUnary == [][C13_Step]_vars /\ []C13_State

\* Witness of C13: a call that missed the cache returns the rate of the unary
\* reply after its subscription request was sent.
C13_Witness ==
    /\ last.op = "SubscribeSent"
    /\ kRate[last.s] # 0
    /\ cOut = <<SubscribeRequest(kCur[last.s]),
                Returned(kCur[last.s], kRate[last.s])>>


\* The call of k is inside s.stream.Send (currency.go l.218): it has taken
\* s.subMutex and found the currency not subscribed; SubscribeSend is the
\* return of that Send, which waits for the transport and the flow control
\* of the peer.
InStreamSend(k) == kPc[k] = "locked" /\ ~kSeen[k]

\* C35: no task holds a reader-writer lock (here s.subMutex of the rate
\* client) while it is in a send or receive that may wait for another party.
C35_NoLockHeldWhileBlocked ==
    \A k \in Callers : InStreamSend(k) => subMutex # k

\* C38: a currency is in s.subscriptions only if its (EUR, c) request was
\* sent successfully; after a failed send the currency is not marked, so
\* that a later call sends the request.
C38_SubscribedOnlyIfSent == \A c \in cSubs : cReqCount[c] > 0

----------------------------------------------------------------------------
(* Claims about Close of the rate client                                   *)

\* C14 (checked under SpecClose): however many goroutines call Close, one
\* after the other or at once, s.closeCh is closed exactly once (never a
\* second time, which would panic), CloseSend is called at most once, and a
\* call that finds Close done returns.
C14_State ==
    /\ nCloseCh <= 1
    /\ nCloseSend <= 1
    /\ (\E k \in Closers : clPc[k] # "idle") => nCloseCh = 1 /\ cClosed
    /\ Cardinality({k \in Closers : clPc[k] = "body"}) <= 1
    /\ \A k \in Closers :
          (onceCs = "done" /\ clPc[k] # "returned") => ENABLED CloseAgain(k)

C14_CloseIdempotent == []C14_State

\* Witness of C14: a second call of Close has returned after the first.
C14_Witness ==
    /\ last.op = "CloseAgain"
    /\ \A k \in Closers : clPc[k] = "returned"
    /\ nCloseCh = 1
    /\ nCloseSend = 1

\* C15 (checked under SpecCloseFair): every call of Close eventually
\* returns.
C15_CloseReturns ==
    \A k \in Closers : (clPc[k] = "body") ~> (clPc[k] = "returned")


----------------------------------------------------------------------------
(* Claims about the repository and the price projector                     *)

\* C16 (checked under SpecCatalog): for the RateChanged event it is handling,
\* the projector publishes the PriceUpdates of the products that were in the
\* repository when it fetched the list, one each and in that order, no
\* product twice and none left out.
C16_ProjectorCoversSnapshot ==
    /\ Len(pjPub) <= Len(pjFetched)
    /\ \A j \in DOMAIN pjPub : pjPub[j].id = pjFetched[j].id
    /\ (pjPc = "idle") => Len(pjPub) = Len(pjFetched)

\* C19 (checked under SpecRepo): Add never assigns an id it has assigned
\* before.
C19_IdsNeverReused == [][\A p \in Prices : Add(p) => getNextID \notin issued]_vars

\* The ids of the products in the repository.
StoredIds == {rArr[j].id : j \in 1..rLen}

Max(S) == CHOOSE x \in S : \A y \in S : y <= x

\* C20 (checked under SpecRepo): Add gives the new product the id
\* 1 + the largest id in the repository, 1 when the repository is empty, and
\* appends it.
C20_Step ==
    \A p \in Prices :
        Add(p) =>
            /\ rLen' = rLen + 1
            /\ rArr'[rLen'].price = p
            /\ rArr'[rLen'].id = IF StoredIds = {} THEN 1 ELSE 1 + Max(StoredIds)
            /\ \A j \in 1..rLen : rArr'[j] = rArr[j]

C20_AddTakesMaxPlusOne == [][C20_Step]_vars

\* Witness of C20: Add has just run on a repository whose ids have a gap, so
\* that the largest id and the number of products differ.
C20_Witness ==
    /\ last.op = "Add"
    /\ rLen >= 2
    /\ rArr[rLen].id > rLen
    /\ rArr[rLen].id = rArr[rLen - 1].id + 1


----------------------------------------------------------------------------
(* Claims about the product service and the repository's reads             *)

\* A priced read has returned the stored products in order, each with its
\* price multiplied by the rate.
PricedFrom(out, stored, rate) ==
    /\ Len(out) = Len(stored)
    /\ \A j \in DOMAIN out :
          /\ out[j].id = stored[j].id
          /\ out[j].price = stored[j].price * rate

\* Every step of the service is a call, which svCall' names.
C21_Step ==
    LET c == svCall'.cur
        r == svCall'.val
        i == svCall'.id
    IN
    /\ (svCall'.op = "GetProducts") =>
          /\ rArr' = rArr /\ rLen' = rLen
          /\ (c = "") => svOut' = Result("none", Products)
          /\ (c # "" /\ r # RateErr) =>
                /\ svOut'.err = "none"
                /\ PricedFrom(svOut'.products, Products, r)
    /\ (svCall'.op = "GetProductByID") =>
          /\ rArr' = rArr /\ rLen' = rLen
          /\ (i \in StoredIds /\ c = "") =>
                /\ svOut'.err = "none"
                /\ \E j \in 1..rLen :
                      rArr[j].id = i /\ svOut'.products = <<rArr[j]>>
          /\ (i \in StoredIds /\ c # "" /\ r # RateErr) =>
                /\ svOut'.err = "none"
                /\ \E j \in 1..rLen :
                      /\ rArr[j].id = i
                      /\ PricedFrom(svOut'.products, <<rArr[j]>>, r)

\* C21: GetProducts(c) and GetProductByID(id, c) with a non-empty currency c
\* return copies whose price is the stored price multiplied by the rate
\* GetRate(EUR, c) returned, and leave every stored product as it is; with
\* the empty currency they return the stored products with their prices.
C21_PricedReadsLeaveStore == [][C21_Step]_vars

\* Witness of C21: a priced read of the whole list has returned the copies of
\* three products.
C21_Witness ==
    /\ last.op = "GetProducts"
    /\ last.s = "USD"
    /\ svOut.err = "none"
    /\ Len(svOut.products) = 3
    /\ svOut.products # Products

\* What a get of id i returns from the slice arr[1..n]: the product, or
\* NoProduct for not-found.
GetOf(arr, n, i) ==
    IF getById(arr, n, i, 1) = 0 THEN NoProduct ELSE arr[getById(arr, n, i, 1)]

C22_Step ==
    /\ (last'.op = "Add") => \A p \in Prices :
          Add(p) => GetOf(rArr', rLen', rArr'[rLen'].id).price = p
    /\ (last'.op \in {"Update", "UpdateNotFound"}) =>
       \A i \in ProductIds, p \in Prices :
          Update(i, p) =>
              IF i \in StoredIds
              THEN /\ last'.op = "Update"
                   /\ GetOf(rArr', rLen', i) = Product(i, p)
              ELSE /\ last'.op = "UpdateNotFound"
                   /\ rArr' = rArr /\ rLen' = rLen
    /\ (last'.op \in {"Delete", "DeleteNotFound"}) => \A i \in ProductIds :
          Delete(i) =>
              IF i \in StoredIds
              THEN /\ last'.op = "Delete"
                   /\ GetOf(rArr', rLen', i) = NoProduct
              ELSE /\ last'.op = "DeleteNotFound"
                   /\ rArr' = rArr /\ rLen' = rLen

\* C22: after Add(p) a get of the assigned id returns p's fields; after
\* Update(q) of a stored id a get of that id returns q's fields; after
\* Delete(id) a get of that id is not-found; Update or Delete of an id that
\* is not stored is not-found and leaves the repository as it is.
C22_GetAfterMutation == [][C22_Step]_vars

\* Witness of C22: an update of an id that was deleted has just failed, in a
\* repository that holds an added product.
C22_Witness ==
    /\ last.op = "UpdateNotFound"
    /\ rLen >= 1
    /\ \E j \in 1..rLen : rArr[j].id >= 3
    /\ 1 \notin StoredIds

C26_Step ==
    LET i == svCall'.id IN
    /\ (svCall'.op = "AddProduct") =>
          /\ rLen' = rLen + 1
          /\ svPub' = <<ProductAdded(rArr'[rLen'].id)>>
          /\ svOut'.err = "none"
    /\ (svCall'.op = "UpdateProduct") =>
          IF i \in StoredIds
          THEN /\ svPub' = <<ProductUpdated(i)>>
               /\ svOut'.err = "none"
               /\ GetOf(rArr', rLen', i) = Product(i, svCall'.val)
          ELSE /\ svPub' = <<>>
               /\ svOut'.err = "notfound"
    /\ (svCall'.op = "DeleteProduct") =>
          IF i \in StoredIds
          THEN /\ svPub' = <<ProductDeleted(i)>>
               /\ svOut'.err = "none"
               /\ i \notin StoredIds'
          ELSE /\ svPub' = <<>>
               /\ svOut'.err = "notfound"

\* C26: AddProduct, UpdateProduct and DeleteProduct each publish exactly one
\* ProductAdded, ProductUpdated or ProductDeleted event with the id of the
\* product concerned when the repository operation has succeeded, and no
\* event when it has failed on an unknown id.
C26_OneEventPerMutation == [][C26_Step]_vars

\* Witness of C26: a delete of an unknown id has just returned not-found
\* without an event, after an add.
C26_Witness ==
    /\ last.op = "DeleteNotFound"
    /\ svOut.err = "notfound"
    /\ svPub = <<>>
    /\ nAdds >= 1

----------------------------------------------------------------------------
(* Claims about the order of RateChanged and PriceUpdate events            *)

\* The RateChanged events are published in the order of the RateResponses
\* that caused them, each carrying its cause's currency and rate.
C30_RateChangedInWireOrder ==
    \A i \in DOMAIN rcLog :
        /\ rcLog[i].w \in DOMAIN wire
        /\ wire[rcLog[i].w].kind = "rate"
        /\ rcLog[i].ev = RateChanged(wire[rcLog[i].w].cur,
                                     wire[rcLog[i].w].rate)
        /\ \A j \in DOMAIN rcLog : i < j => rcLog[i].w < rcLog[j].w

\* The projector takes the RateChanged events up in the order of their
\* publication, and the PriceUpdates of one of them are published at
\* positions 1, 2, ... of the list, all of them before the next RateChanged
\* is taken up.
C30_PriceUpdatesContiguous ==
    \A i \in DOMAIN puLog :
        /\ puLog[i].rc \in DOMAIN rcLog
        /\ puLog[i].pos \in 0..puLog[i].of
        /\ i = 1 => puLog[i].pos = 0
        /\ i > 1 =>
              IF puLog[i].pos = 0
              THEN /\ puLog[i - 1].rc < puLog[i].rc
                   /\ puLog[i - 1].pos = puLog[i - 1].of
              ELSE /\ puLog[i - 1].rc = puLog[i].rc
                   /\ puLog[i - 1].of = puLog[i].of
                   /\ puLog[i].pos = puLog[i - 1].pos + 1

C30_Step ==
    (last'.op = "ProjectorPublish") =>
        /\ Len(puLog') = Len(puLog) + 1
        /\ LET e == pjPub'[Len(pjPub')]
               c == rcLog[puLog'[Len(puLog')].rc].ev
               p == ProjectorArray[puLog'[Len(puLog')].pos]
           IN  e = PriceUpdate(p.id, p.price * c.rate, c.cur)

\* C30: RateChanged events are published in the order in which the
\* RateResponses that caused them were received on the stream, and the
\* projector publishes all PriceUpdates derived from one RateChanged, in the
\* order of the product list, before any PriceUpdate derived from a later
\* RateChanged.
C30_EventsInOrder ==
    /\ []C30_RateChangedInWireOrder
    /\ []C30_PriceUpdatesContiguous
    /\ [][C30_Step]_vars

\* Witness of C30: two RateChanged events were published with a repeated
\* rate between their causes, and the projector has published the
\* PriceUpdates of the first and one of the second.
C30_Witness ==
    /\ Len(rcLog) = 2
    /\ rcLog[2].w = 3
    /\ \E i \in DOMAIN puLog :
          /\ puLog[i].rc = 1 /\ puLog[i].pos = 2
          /\ i < Len(puLog)
    /\ puLog[Len(puLog)].rc = 2
    /\ puLog[Len(puLog)].pos = 1

----------------------------------------------------------------------------
(* productService.Close                                                    *)

\* Close has unsubscribed the projector's queue.
Unsubscribed == nUnsub > 0

\* C33: once Close has unsubscribed the projector's queue, the projector
\* drains what is buffered, sees the end of the stream and terminates, and
\* Close returns; the queue is unsubscribed and closed at most once however
\* often Close is called.
C33_CloseDrainsAndReturns ==
    /\ [](nUnsub <= 1 /\ nChClosed <= 1)
    /\ Unsubscribed ~> (/\ psGo = "done"
                        /\ pjQueue = <<>>
                        /\ \E k \in Closers : psCl[k] = "returned")

\* The same for a projector that is already in its range loop when Close
\* unsubscribes.
C33_RunningProjectorDrains ==
    (Unsubscribed /\ psGo = "ranging")
        ~> (/\ psGo = "done"
            /\ pjQueue = <<>>
            /\ \E k \in Closers : psCl[k] = "returned")

----------------------------------------------------------------------------
(* Push sessions: properties                                               *)

\* The message a session owes for the event e, as the pair <<tag, data>>
\* lists it per type; <<>> when the type has no message.
Owed(e) ==
    LET k == evKind[e] IN
    IF k = "PriceUpdate" THEN <<[EventType |-> "price_update", Data |-> <<k, e>>]>>
    ELSE IF k = "ProductAdded" THEN <<[EventType |-> "product_added", Data |-> <<k, e>>]>>
    ELSE IF k = "ProductUpdated" THEN <<[EventType |-> "product_updated", Data |-> <<k, e>>]>>
    ELSE IF k = "ProductDeleted" THEN <<[EventType |-> "product_deleted", Data |-> <<k, e>>]>>
    ELSE <<>>

\* The messages owed for the events es, in order.
RECURSIVE OwedAll(_)
OwedAll(es) == IF es = <<>> THEN <<>> ELSE Owed(Head(es)) \o OwedAll(Tail(es))

\* The events session s has dequeued and dealt with, without the one whose
\* write failed.
Served(s) ==
    SubSeq(deq[Chan(s)], 1, IF wsFailed[s] THEN wsHandled[s] - 1 ELSE wsHandled[s])

\* The session deals with the event it holds: one message with the tag of the
\* event's type on a live connection, nothing and the loop goes on for a type
\* without a tag, nothing and the session returns when the write fails.
C18_Step ==
    \A s \in Sessions :
        SessionHandle(s) =>
            LET e == deq[Chan(s)][wsHandled[s] + 1] IN
            IF Owed(e) = <<>>
            THEN wsOut'[s] = wsOut[s] /\ wsPc'[s] = "open"
            ELSE IF wsConn[s] = "live"
            THEN wsOut'[s] = wsOut[s] \o Owed(e) /\ wsPc'[s] = "open"
            ELSE wsOut'[s] = wsOut[s] /\ wsPc'[s] = "returning"

\* What a session has written is what it owes for the events it has dealt
\* with, in dequeue order; it holds at most one event; after a failed write
\* it is out of the loop and receives nothing more.
C18_State ==
    \A s \in Sessions :
        /\ wsOut[s] = OwedAll(Served(s))
        /\ Len(deq[Chan(s)]) - wsHandled[s] \in {0, 1}
        /\ wsFailed[s] =>
              /\ wsPc[s] \in {"returning", "done"}
              /\ Len(deq[Chan(s)]) = wsHandled[s]

C17_Published(e) ==
    /\ e <= nPub
    /\ evKind[e] = "PriceUpdate"
    /\ \A p \in Publishers : ~(pubPc[p] = "loop" /\ pubEv[p] = e)
    /\ \A s \in Sessions :
          /\ Chan(s) \in regAt[e]
          /\ e \notin fullAt[Chan(s)]
          /\ wsConn[s] = "live"

\* Both connections carry the price_update message of e.
C17_Written(e) ==
    \A s \in Sessions :
        \E i \in DOMAIN wsOut[s] :
            wsOut[s][i] = [EventType |-> "price_update",
                           Data |-> <<"PriceUpdate", e>>]

SessionEnded(s) == wsPc[s] = "done" /\ Chan(s) \in made

\* C34: however a push session ends (the reader task saw the peer go, or a
\* write failed), its queue is deleted from the bus and closed, once: the
\* queue of an ended session is not registered, no channel is closed twice
\* and nothing is buffered for an ended session any more.
C34_Step ==
    /\ \A s \in Sessions :
         /\ (wsPc[s] = "open" /\ wsPc'[s] # "open")
                => /\ wsPc'[s] = "returning"
                   /\ wsFailed'[s] \/ DoneClosed(s)
                   /\ Chan(s) \in subscribers' /\ ~closed'[Chan(s)]
         /\ (wsPc[s] = "returning" /\ wsPc'[s] # "returning")
                => /\ wsPc'[s] = "done"
                   /\ Chan(s) \notin subscribers' /\ closed'[Chan(s)]
         /\ SessionEnded(s)
                => /\ SessionEnded(s)'
                   /\ buf'[Chan(s)] = buf[Chan(s)]
                   /\ Chan(s) \notin subscribers'
                   /\ unsubPc'[Chan(s)] = unsubPc[Chan(s)]
    /\ \A h \in Handles : closed[h] => closed'[h] /\ unsubPc'[h] = "done"
    /\ ~panicked'

C34_State ==
    \A s \in Sessions :
        /\ SessionEnded(s) => /\ Chan(s) \notin subscribers
                              /\ closed[Chan(s)]
                              /\ \A p \in Publishers : Chan(s) \notin pubTodo[p]
        /\ wsPc[s] = "returning"
              => \/ unsubPc[Chan(s)] = "none" /\ Chan(s) \in subscribers
                 \/ unsubPc[Chan(s)] = "deleted" /\ ENABLED SessionUnsubscribeClose(s)
                 \/ unsubPc[Chan(s)] = "done" /\ ENABLED SessionConnClose(s)

C34_EndedSessionUnsubscribed == [][C34_Step]_vars /\ []C34_State

\* Both ways out have been taken, one by each session, and the bus is
\* publishing after that.
C34_Witness ==
    /\ SessionEnded("A") /\ wsFailed["A"]
    /\ SessionEnded("B") /\ ~wsFailed["B"]
    /\ pubPc["p1"] = "loop"

\* The price_update messages written to session s.
PriceUpdatesWritten(s) ==
    Cardinality({i \in DOMAIN wsOut[s] : wsOut[s][i].EventType = "price_update"})

\* C40: on a healthy stream and without queue overflow, every monitor tick
\* that changes the rate of a currency the client has subscribed to leads to
\* one price_update per stored product written to every connected session,
\* and to no more than that.
C40_TickReachesSessions ==
    /\ [](\A s \in PipeSessions : PriceUpdatesWritten(s) <= nTicks * rLen)
    /\ \A n \in 1..MaxTicks :
          (nTicks = n)
              ~> (\A s \in PipeSessions : PriceUpdatesWritten(s) >= n * rLen)

\* The same for a tick whose fan-out pass finds the client's subscription
\* in the registry.
C40_RegisteredTickReachesSessions ==
    \A n \in 1..MaxTicks :
        (nTicks = n /\ fanPc = "streams" /\ ClientStream \in fanTodo)
            ~> (\A s \in PipeSessions : PriceUpdatesWritten(s) >= n * rLen)

====
